---- MODULE Spec2Model ----
(***************************************************************************)
(* A model of the myia front end (myia/front.py): the Parser that turns a  *)
(* Python AST into the closure-converted Myia IR, with its VariableTracker *)
(* and the shared ParseEnv, and of the memoized asynchronous lookup        *)
(* DynamicMap (myia/infer/utils.py).                                       *)
(*                                                                         *)
(* Every visit_* method is an operator taking the bindings of the          *)
(* enclosing trackers (frames, outermost first), the Parser object P and   *)
(* the state G shared by all parsers (the ParseEnvs, the symbol counter,   *)
(* the pending exception) and returning [P, G, v]: the parser and shared   *)
(* state after the call and the value returned.  Source locations          *)
(* (Location, .at(loc)) carry no behaviour and are left out.               *)
(***************************************************************************)
EXTENDS Integers, Sequences, FiniteSets, TLC

\* Bounds of the model.
MaxOps == 3          \* calls made by the driver on the live parsers
MaxDepth == 2        \* parsers alive at once in the driver (root + closures)
MaxCallers == 3      \* concurrent callers of one DynamicMap
MaxFrames == 3       \* trackers of a chain
MaxBinds == 3        \* __setitem__ calls on the trackers of a chain

\* Python variable names; "#lambda" is make_closure's default `variable`.
Names == {"a", "b", "c", "u"}
VarNames == Names \cup {"#lambda"}

(***************************************************************************)
(* IR nodes (myia.ast) and the symbol generator.                           *)
(***************************************************************************)
None == [k |-> "None"]
Symbol(name, version, namespace, relation) ==
    [k |-> "Symbol", name |-> name, version |-> version,
     namespace |-> namespace, relation |-> relation]
Value(v) == [k |-> "Value", value |-> v]
Tuple(values) == [k |-> "Tuple", values |-> values]
Apply(fn, args, cannot_fail) ==
    [k |-> "Apply", fn |-> fn, args |-> args, cannot_fail |-> cannot_fail]
Let(bindings, body) == [k |-> "Let", bindings |-> bindings, body |-> body]
Begin(stmts) == [k |-> "Begin", stmts |-> stmts]
Closure(fn, args) == [k |-> "Closure", fn |-> fn, args |-> args]
Lambda(ref, args, body) == [k |-> "Lambda", ref |-> ref, args |-> args, body |-> body]
_Assign(varname, value) == [k |-> "_Assign", varname |-> varname, value |-> value]

\* myia.symbols.builtins / get_operator: fixed symbols, one per name.
builtins(name) == Symbol(name, 0, "builtin", "")
get_operator(op) == builtins(op)

\* GenSym.__call__: a symbol no earlier call returned, whatever the base name
\* and whichever generator (a Parser's gen, a ParseEnv's gen) issues it.
GenSym(G, name, relation) ==
    [G |-> [G EXCEPT !.next = @ + 1], v |-> Symbol(name, G.next, "local", relation)]

(***************************************************************************)
(* The Python AST fed to the Parser.                                       *)
(***************************************************************************)
ast_Name(id) == [k |-> "Name", id |-> id]
ast_Num(n) == [k |-> "Num", n |-> n]
ast_BinOp(left, op, right) == [k |-> "BinOp", left |-> left, op |-> op, right |-> right]
ast_Lambda(args, body) == [k |-> "Lambda", args |-> args, body |-> body]
ast_Index(value) == [k |-> "Index", value |-> value]
ast_Subscript(value, slice) == [k |-> "Subscript", value |-> value, slice |-> slice]
ast_Assign(targ, value) == [k |-> "Assign", targ |-> targ, value |-> value]
ast_AugAssign(target, op, value) ==
    [k |-> "AugAssign", target |-> target, op |-> op, value |-> value]
ast_Expr(value) == [k |-> "Expr", value |-> value]
ast_Return(value) == [k |-> "Return", value |-> value]
ast_If(test, body, orelse) == [k |-> "If", test |-> test, body |-> body, orelse |-> orelse]
ast_While(test, body) == [k |-> "While", test |-> test, body |-> body]
ast_FunctionDef(name, args, body) ==
    [k |-> "FunctionDef", name |-> name, args |-> args, body |-> body]
ast_Pass == [k |-> "Pass"]
\* A Python list of statements where a node may stand as well
\* (isinstance(body, list) in make_closure and explore_vars).
ast_list(stmts) == [k |-> "list", stmts |-> stmts]

(***************************************************************************)
(* Results and exceptions.  An exception is its class and its message;     *)
(* G.err = NoError while no exception is pending; a raise sets it and      *)
(* every later step of the call is skipped, so that the state returned is  *)
(* the state at the raise.                                                 *)
(***************************************************************************)
NoError == [type |-> "None", message |-> ""]
\* MyiaSyntaxError(loc, message): the class and the message, whatever the text.
MyiaSyntaxError(message) == [type |-> "MyiaSyntaxError", message |-> message]
Res(P, G, v) == [P |-> P, G |-> G, v |-> v]
Raise(P, G, exc) == [P |-> P, G |-> [G EXCEPT !.err = exc], v |-> None]
Failed(r) == r.G.err # NoError

ReturnMismatch == "Either none or all branches of an if statement must return a value."
AssignMismatch == "All branches of an if statement must assign to the same set of variables."
DeadCode == "There should be no statements after return."
MissingReturn == "Missing return statement."
Unrecognized == "Unrecognized Python AST node type"
SliceOnVariable == "You can only set a slice on a variable."
AugSubscript == "Augmented assignment to subscripts or slices is not supported."
UnsupportedTarg == "Unsupported targ for Assign"
\* The exceptions of Python itself that leave the Parser.
NameError == [type |-> "NameError", message |-> "Undeclared variable"]
TypeErrorLabel ==
    [type |-> "TypeError",
     message |-> "make_closure() got an unexpected keyword argument 'label'"]
ValueErrorUnpack == [type |-> "ValueError", message |-> "not enough values to unpack"]
PythonErrors == {NameError, TypeErrorLabel, ValueErrorUnpack}
\* isinstance(e, MyiaSyntaxError): the exceptions of that class, with the
\* fixed messages above or with the text of a return_error.
MyiaSyntaxErrors == [type : {"MyiaSyntaxError"}, message : STRING]

(***************************************************************************)
(* OrderedDict: a sequence of keys (local_assignments) or of [name, sym]   *)
(* items (free_variables); setting a present key keeps its position.       *)
(***************************************************************************)
SeqSet(s) == {s[i] : i \in 1..Len(s)}
Keys(od) == [i \in 1..Len(od) |-> od[i].name]
Values(od) == [i \in 1..Len(od) |-> od[i].sym]
HasKey(od, name) == \E i \in 1..Len(od) : od[i].name = name
GetItem(od, name) == od[CHOOSE i \in 1..Len(od) : od[i].name = name].sym
SetItem(od, name, sym) ==
    IF HasKey(od, name)
    THEN [i \in 1..Len(od) |-> IF od[i].name = name THEN [name |-> name, sym |-> sym] ELSE od[i]]
    ELSE Append(od, [name |-> name, sym |-> sym])
SetKey(keys, name) == IF name \in SeqSet(keys) THEN keys ELSE Append(keys, name)

RECURSIVE Update(_, _)
\* OrderedDict.update(keys): the keys not yet present are appended in order.
Update(keys, more) ==
    IF more = <<>> THEN keys ELSE Update(SetKey(keys, Head(more)), Tail(more))

(***************************************************************************)
(* VariableTracker.  frames is the chain of bindings, this tracker's own   *)
(* last and its parent chain before it.                                    *)
(***************************************************************************)
NoBindings == [n \in VarNames |-> None]

\* get_free as it would be if the outermost binding of a name won.
RECURSIVE get_free_outermost(_, _)
get_free_outermost(frames, name) ==
    LET bindings == frames[Len(frames)] IN
    IF Len(frames) = 1
    THEN IF bindings[name] # None
         THEN [found |-> TRUE, free |-> FALSE, sym |-> bindings[name]]
         ELSE [found |-> FALSE, free |-> FALSE, sym |-> None]
    ELSE LET up == get_free_outermost(SubSeq(frames, 1, Len(frames) - 1), name)
         IN  IF up.found THEN [found |-> TRUE, free |-> TRUE, sym |-> up.sym]
             ELSE IF bindings[name] # None
             THEN [found |-> TRUE, free |-> FALSE, sym |-> bindings[name]]
             ELSE [found |-> FALSE, free |-> FALSE, sym |-> None]

RECURSIVE get_free(_, _)
\* [found, free, sym]; found = FALSE stands for the NameError.
get_free(frames, name) ==
    LET bindings == frames[Len(frames)] IN
    IF bindings[name] # None
    THEN [found |-> TRUE, free |-> FALSE, sym |-> bindings[name]]
    ELSE IF Len(frames) = 1
    THEN [found |-> FALSE, free |-> FALSE, sym |-> None]
    ELSE LET up == get_free(SubSeq(frames, 1, Len(frames) - 1), name)
         IN  [found |-> up.found, free |-> TRUE, sym |-> up.sym]

\* VariableTracker.__getitem__
getitem(frames, name) == get_free(frames, name).sym
Declared(frames, name) == get_free(frames, name).found

\* VariableTracker.__setitem__
setitem(bindings, name, sym) == [bindings EXCEPT ![name] = sym]

(***************************************************************************)
(* Parser: construction and the helpers that do not visit.                 *)
(***************************************************************************)
\* Parser.__init__ with dest given (a caller without dest draws it from gen).
Parser(global_env, dry, pull_free_variables, top_level, return_error, dest) ==
    [bindings |-> NoBindings,
     free_variables |-> <<>>,
     local_assignments |-> <<>>,
     returns |-> FALSE,
     global_env |-> global_env,
     dry |-> dry,
     pull_free_variables |-> pull_free_variables,
     top_level |-> top_level,
     return_error |-> return_error,
     dest |-> dest]

\* The tracker chain seen by a parser derived from P.
Frames(frames, P) == Append(frames, P.bindings)

\* sub_parser(pull_free_variables=.., dest=..): global_env, dry and
\* return_error are inherited, the tracker is a child of P's.
sub_parser(P, pull_free_variables, dest) ==
    Parser(P.global_env, P.dry, pull_free_variables, FALSE, P.return_error, dest)

\* ParseEnv.__setitem__: a dict keyed by the symbol.
EnvSet(table, ref, lbda) ==
    IF \E i \in 1..Len(table) : table[i].ref = ref
    THEN [i \in 1..Len(table) |-> IF table[i].ref = ref THEN lbda ELSE table[i]]
    ELSE Append(table, lbda)

\* reg_lambda as it would be if the function were registered under the
\* destination of the parser that registers it.
reg_lambda_at_dest(P, G, ref, args, body) ==
    IF ~P.dry
    THEN Res(P, [G EXCEPT !.envs[P.global_env] =
                              EnvSet(@, P.dest, Lambda(P.dest, args, body))], ref)
    ELSE Res(P, G, ref)


reg_lambda(P, G, ref, args, body) ==
    IF ~P.dry
    THEN Res(P, [G EXCEPT !.envs[P.global_env] = EnvSet(@, ref, Lambda(ref, args, body))], ref)
    ELSE Res(P, G, ref)

\* A call and what follows it: e is evaluated once and K is applied to its
\* value.  Do and DoSub stop at a raise: Do passes on the failed result of
\* a call on the same parser, DoSub that of a call on a derived parser,
\* which leaves the calling parser P as it is.
Bind(e, K(_)) == CHOOSE v \in {K(x) : x \in {e}} : TRUE
Do(e, K(_)) == CHOOSE v \in {IF Failed(x) THEN x ELSE K(x) : x \in {e}} : TRUE
DoSub(P, e, K(_)) ==
    CHOOSE v \in {IF Failed(x) THEN Res(P, x.G, None) ELSE K(x) : x \in {e}} : TRUE

\* new_variable as it would be if a name already bound kept its symbol.
new_variable_reusing(P, G, base_name) ==
    IF P.bindings[base_name] # None
    THEN Res(P, G, P.bindings[base_name])
    ELSE Bind(GenSym(G, base_name, ""), LAMBDA sym :
              Res([P EXCEPT !.bindings = setitem(@, base_name, sym.v)], sym.G, sym.v))

new_variable(P, G, base_name) ==
    Bind(GenSym(G, base_name, ""), LAMBDA sym :
         Res([P EXCEPT !.bindings = setitem(@, base_name, sym.v)], sym.G, sym.v))

make_assign(P, G, base_name, value) ==
    Bind(new_variable(P, G, base_name), LAMBDA sym :
         Res([sym.P EXCEPT !.local_assignments = SetKey(@, base_name)], sym.G,
             _Assign(sym.v, value)))

RECURSIVE multi_assign_loop(_, _, _, _, _, _)
multi_assign_loop(P, G, ass, i, tmp, stmts) ==
    IF i > Len(ass) THEN Res(P, G, Begin(stmts))
    ELSE Bind(make_assign(P, G, ass[i],
                          Apply(builtins("index"), <<tmp, Value(i - 1)>>, TRUE)),
              LAMBDA stmt :
                  multi_assign_loop(stmt.P, stmt.G, ass, i + 1, tmp, Append(stmts, stmt.v)))

multi_assign(P, G, ass, expr) ==
    Bind(GenSym(G, "#tmp", ""), LAMBDA tmp :
         multi_assign_loop(P, tmp.G, ass, 1, tmp.v, <<_Assign(tmp.v, expr)>>))

\* new_variable for each name of a list, in order: [P, G, v = the symbols].
RECURSIVE new_variables(_, _, _, _)
new_variables(P, G, names, syms) ==
    IF names = <<>> THEN Res(P, G, syms)
    ELSE Bind(new_variable(P, G, Head(names)), LAMBDA sym :
              new_variables(sym.P, sym.G, Tail(names), Append(syms, sym.v)))

\* visit_variable as it would be if a closure parser read the symbol of the
\* enclosing scope as it is, without pulling it in.
visit_variable_direct(frames, P, G, name) ==
    Bind(get_free(Frames(frames, P), name), LAMBDA r :
         IF ~r.found THEN Res(P, G, Symbol(name, 0, "global", ""))
         ELSE IF r.free /\ ~P.pull_free_variables
         THEN Res([P EXCEPT !.free_variables = SetItem(@, name, r.sym)], G, r.sym)
         ELSE Res(P, G, r.sym))

\* visit_variable as it would be if pulling drew the alias without binding
\* it in the parser's own tracker.
visit_variable_unbound(frames, P, G, name) ==
    Bind(get_free(Frames(frames, P), name), LAMBDA r :
         IF ~r.found THEN Res(P, G, Symbol(name, 0, "global", ""))
         ELSE IF r.free
         THEN IF P.pull_free_variables
              THEN Bind(GenSym(G, name, ""), LAMBDA v :
                        Res([P EXCEPT !.free_variables = SetItem(@, name, v.v)],
                            v.G, v.v))
              ELSE Res([P EXCEPT !.free_variables = SetItem(@, name, r.sym)], G, r.sym)
         ELSE Res(P, G, r.sym))

\* visit_variable as it would be if the NameError of get_free were let through.
visit_variable_strict(frames, P, G, name) ==
    Bind(get_free(Frames(frames, P), name), LAMBDA r :
         IF ~r.found THEN Raise(P, G, NameError)
         ELSE IF r.free
         THEN IF P.pull_free_variables
              THEN Bind(new_variable(P, G, name), LAMBDA v :
                        Res([v.P EXCEPT !.free_variables = SetItem(@, name, v.v)],
                            v.G, v.v))
              ELSE Res([P EXCEPT !.free_variables = SetItem(@, name, r.sym)], G, r.sym)
         ELSE Res(P, G, r.sym))

visit_variable(frames, P, G, name) ==
    Bind(get_free(Frames(frames, P), name), LAMBDA r :
         IF ~r.found THEN Res(P, G, Symbol(name, 0, "global", ""))
         ELSE IF r.free
         THEN IF P.pull_free_variables
              THEN Bind(new_variable(P, G, name), LAMBDA v :
                        Res([v.P EXCEPT !.free_variables = SetItem(@, name, v.v)],
                            v.G, v.v))
              ELSE Res([P EXCEPT !.free_variables = SetItem(@, name, r.sym)], G, r.sym)
         ELSE Res(P, G, r.sym))

\* visit_variable for each name of a list, in order: [P, G, v = the symbols].
RECURSIVE visit_variables(_, _, _, _, _)
visit_variables(frames, P, G, names, syms) ==
    IF names = <<>> THEN Res(P, G, syms)
    ELSE Bind(visit_variable(frames, P, G, Head(names)), LAMBDA v :
              visit_variables(frames, v.P, v.G, Tail(names), Append(syms, v.v)))

\* prepare_closure(variable, ref); variable = "" and ref = None stand for
\* the arguments left out.  [p, G]: the child parser and the shared state.
prepare_closure(P, G, variable, ref) ==
    Bind(IF ref = None
         THEN GenSym(G, IF variable = "" THEN "#lambda" ELSE variable, "")
         ELSE [G |-> G, v |-> ref],
         LAMBDA g :
            [p |-> IF variable # ""
                   THEN [sub_parser(P, TRUE, g.v) EXCEPT
                             !.bindings = setitem(@, variable, g.v)]
                   ELSE sub_parser(P, TRUE, g.v),
             G |-> g.G])

\* construct_closure as it would be with the formals ahead of the captures.
construct_closure_formals_first(frames, P, G, p, args, body) ==
    Bind(visit_variables(frames, P, G, Keys(p.free_variables), <<>>), LAMBDA clos_values :
    Bind(reg_lambda(clos_values.P, clos_values.G, p.dest,
                    args \o Values(p.free_variables), body), LAMBDA lbda :
         IF Len(p.free_variables) > 0
         THEN Res(lbda.P, lbda.G, Closure(lbda.v, clos_values.v))
         ELSE lbda))

construct_closure(frames, P, G, p, args, body) ==
    Bind(visit_variables(frames, P, G, Keys(p.free_variables), <<>>), LAMBDA clos_values :
    Bind(reg_lambda(clos_values.P, clos_values.G, p.dest,
                    Values(p.free_variables) \o args, body), LAMBDA lbda :
         IF Len(p.free_variables) > 0
         THEN Res(lbda.P, lbda.G, Closure(lbda.v, clos_values.v))
         ELSE lbda))

\* myia.util.group_contiguous: maximal runs of equal key, as [key, grp].
RECURSIVE group_contiguous(_, _)
group_contiguous(results, groups) ==
    IF results = <<>> THEN groups
    ELSE IF Len(groups) > 0 /\ groups[Len(groups)].isass = (Head(results).k = "_Assign")
    THEN group_contiguous(Tail(results),
                          [groups EXCEPT ![Len(groups)].grp = Append(@, Head(results))])
    ELSE group_contiguous(Tail(results),
                          Append(groups, [isass |-> Head(results).k = "_Assign",
                                          grp |-> <<Head(results)>>]))

\* The bindings of a Let made of a run of _Assign.
LetBindings(grp) == [i \in 1..Len(grp) |-> <<grp[i].varname, grp[i].value>>]

RECURSIVE helper(_, _)
\* helper as it would be if a run of assignments gave a Let of its last
\* binding alone.
helper_last_binding(groups, result) ==
    IF groups = <<>> THEN [err |-> ValueErrorUnpack, v |-> None]
    ELSE IF Head(groups).isass
    THEN LET grp == Head(groups).grp
             last_one == LetBindings(<<grp[Len(grp)]>>)
         IN  IF Len(groups) = 1
             THEN IF result = None
                  THEN [err |-> MyiaSyntaxError(MissingReturn), v |-> None]
                  ELSE [err |-> NoError, v |-> Let(last_one, result)]
             ELSE Bind(helper(Tail(groups), result), LAMBDA h :
                       IF h.err # NoError THEN h
                       ELSE [err |-> NoError, v |-> Let(last_one, h.v)])
    ELSE IF Len(groups) = 1
    THEN IF Len(Head(groups).grp) = 1
         THEN [err |-> NoError, v |-> Head(groups).grp[1]]
         ELSE [err |-> NoError, v |-> Begin(Head(groups).grp)]
    ELSE Bind(helper(Tail(groups), result), LAMBDA h :
              IF h.err # NoError THEN h
              ELSE [err |-> NoError, v |-> Begin(Append(Head(groups).grp, h.v))])

\* body_wrapper's helper: [err, v].
helper(groups, result) ==
    IF groups = <<>> THEN [err |-> ValueErrorUnpack, v |-> None]
    ELSE IF Head(groups).isass
    THEN IF Len(groups) = 1
         THEN IF result = None
              THEN [err |-> MyiaSyntaxError(MissingReturn), v |-> None]
              ELSE [err |-> NoError, v |-> Let(LetBindings(Head(groups).grp), result)]
         ELSE Bind(helper(Tail(groups), result), LAMBDA h :
                   IF h.err # NoError THEN h
                   ELSE [err |-> NoError, v |-> Let(LetBindings(Head(groups).grp), h.v)])
    ELSE IF Len(groups) = 1
    THEN IF Len(Head(groups).grp) = 1
         THEN [err |-> NoError, v |-> Head(groups).grp[1]]
         ELSE [err |-> NoError, v |-> Begin(Head(groups).grp)]
    ELSE Bind(helper(Tail(groups), result), LAMBDA h :
              IF h.err # NoError THEN h
              ELSE [err |-> NoError, v |-> Begin(Append(Head(groups).grp, h.v))])

\* A call of the function body_wrapper returned, by parser P: the node, or
\* the exception helper raised.
Finalize(P, G, groups, result) ==
    Bind(helper(groups, result), LAMBDA h :
         IF h.err # NoError THEN Raise(P, G, h.err) ELSE Res(P, G, h.v))

(***************************************************************************)
(* The visitors.                                                           *)
(***************************************************************************)
RECURSIVE visit(_, _, _, _)
RECURSIVE body_wrapper(_, _, _, _)
RECURSIVE body_wrapper_loop(_, _, _, _, _)
RECURSIVE visit_body(_, _, _, _)
RECURSIVE make_closure(_, _, _, _, _, _, _)
RECURSIVE visit_Assign(_, _, _, _)
RECURSIVE visit_AugAssign(_, _, _, _)
RECURSIVE visit_BinOp(_, _, _, _)
RECURSIVE visit_Subscript(_, _, _, _)
RECURSIVE visit_Return(_, _, _, _)
RECURSIVE visit_If(_, _, _, _)
RECURSIVE mkapply(_, _, _, _, _, _, _, _, _, _)
RECURSIVE explore_vars(_, _, _, _, _)
RECURSIVE explore_loop(_, _, _, _)
RECURSIVE visit_While(_, _, _, _)

\* The checks on varargs, keyword-only arguments, defaults and decorators
\* concern argument forms the modelled AST does not have.  make_closure is
\* called with the keyword label, which it does not take.
visit_FunctionDef(frames, P, G, node) ==
    Bind(GenSym(G, node.name, IF P.top_level THEN "" ELSE "#:"), LAMBDA ref :
    Bind(new_variable(P, ref.G, node.name), LAMBDA sym :
         Raise(sym.P, sym.G, TypeErrorLabel)))

\* LocVisitor.visit: dispatch on the node's class.
visit(frames, P, G, node) ==
    CASE node.k = "Name" -> visit_variable(frames, P, G, node.id)
      [] node.k = "Num" -> Res(P, G, Value(node.n))
      [] node.k = "BinOp" -> visit_BinOp(frames, P, G, node)
      [] node.k = "Lambda" ->
            make_closure(frames, P, G, node.args, node.body, "#lambda", None)
      [] node.k = "Index" -> visit(frames, P, G, node.value)
      [] node.k = "Subscript" -> visit_Subscript(frames, P, G, node)
      [] node.k = "Expr" -> visit(frames, P, G, node.value)
      [] node.k = "Assign" -> visit_Assign(frames, P, G, node)
      [] node.k = "AugAssign" -> visit_AugAssign(frames, P, G, node)
      [] node.k = "Return" -> visit_Return(frames, P, G, node)
      [] node.k = "FunctionDef" -> visit_FunctionDef(frames, P, G, node)
      [] node.k = "If" -> visit_If(frames, P, G, node)
      [] node.k = "While" -> visit_While(frames, P, G, node)
      [] OTHER -> Raise(P, G, MyiaSyntaxError(Unrecognized))

visit_Subscript(frames, P, G, node) ==
    Do(visit(frames, P, G, node.value), LAMBDA value :
    Do(visit(frames, value.P, value.G, node.slice), LAMBDA slice :
       Res(slice.P, slice.G, Apply(builtins("index"), <<value.v, slice.v>>, FALSE))))

visit_BinOp(frames, P, G, node) ==
    Do(visit(frames, P, G, node.left), LAMBDA l :
    Do(visit(frames, l.P, l.G, node.right), LAMBDA r :
       Res(r.P, r.G, Apply(get_operator(node.op), <<l.v, r.v>>, FALSE))))

visit_Assign(frames, P, G, node) ==
    IF node.targ.k = "Subscript"
    THEN IF node.targ.value.k # "Name" THEN Raise(P, G, MyiaSyntaxError(SliceOnVariable))
         ELSE Do(visit(frames, P, G, node.value), LAMBDA val :
              Do(visit(frames, val.P, val.G, node.targ.value), LAMBDA base :
              Do(visit(frames, base.P, base.G, node.targ.slice), LAMBDA idx :
                 make_assign(idx.P, idx.G, node.targ.value.id,
                             Apply(builtins("setslice"), <<base.v, idx.v, val.v>>, FALSE)))))
    ELSE IF node.targ.k = "Name"
    THEN Do(visit(frames, P, G, node.value), LAMBDA val :
            make_assign(val.P, val.G, node.targ.id, val.v))
    ELSE Raise(P, G, MyiaSyntaxError(UnsupportedTarg))

visit_AugAssign(frames, P, G, node) ==
    IF node.target.k # "Name" THEN Raise(P, G, MyiaSyntaxError(AugSubscript))
    ELSE Do(visit(frames, P, G, node.value), LAMBDA aug :
         Do(visit_variable(frames, aug.P, aug.G, node.target.id), LAMBDA vv :
         Bind(get_free(Frames(frames, vv.P), node.target.id), LAMBDA prev :
              IF ~prev.found THEN Raise(vv.P, vv.G, NameError)
              ELSE make_assign(vv.P, vv.G, node.target.id,
                               Apply(get_operator(node.op), <<prev.sym, aug.v>>, FALSE)))))

visit_Return(frames, P, G, node) ==
    IF P.return_error # "" THEN Raise(P, G, MyiaSyntaxError(P.return_error))
    ELSE visit(frames, [P EXCEPT !.returns = TRUE], G, node.value)

make_closure(frames, P, G, args, body, variable, ref) ==
    Bind(prepare_closure(P, G, variable, ref), LAMBDA pc1 :
    Bind(new_variables(pc1.p, pc1.G, args, <<>>), LAMBDA sargs :
    DoSub(P, IF body.k = "list"
             THEN visit_body(Frames(frames, P), sargs.P, sargs.G, body.stmts)
             ELSE visit(Frames(frames, P), sargs.P, sargs.G, body),
          LAMBDA fbody :
              construct_closure(frames, P, fbody.G, fbody.P, sargs.v, fbody.v))))

\* body_wrapper's loop as it would be without the test of ret.
body_wrapper_loop_unchecked(frames, P, G, stmts, results) ==
    IF stmts = <<>> THEN Res(P, G, results)
    ELSE Do(visit(frames, P, G, Head(stmts)), LAMBDA r :
            body_wrapper_loop(frames, r.P, r.G, Tail(stmts),
                              IF r.v.k = "Begin" THEN results \o r.v.stmts
                              ELSE Append(results, r.v)))

body_wrapper_loop(frames, P, G, stmts, results) ==
    IF stmts = <<>> THEN Res(P, G, results)
    ELSE Do(visit(frames, P, G, Head(stmts)), LAMBDA r :
            IF P.returns THEN Raise(r.P, r.G, MyiaSyntaxError(DeadCode))
            ELSE body_wrapper_loop(frames, r.P, r.G, Tail(stmts),
                                   IF r.v.k = "Begin" THEN results \o r.v.stmts
                                   ELSE Append(results, r.v)))

\* v = groups: the returned function is  LAMBDA v : helper(groups, v).
body_wrapper(frames, P, G, stmts) ==
    Do(body_wrapper_loop(frames, P, G, stmts, <<>>), LAMBDA loop :
       Res(loop.P, loop.G, group_contiguous(loop.v, <<>>)))

visit_body(frames, P, G, stmts) ==
    Do(body_wrapper(frames, P, G, stmts), LAMBDA bw :
       Finalize(bw.P, bw.G, bw.v, None))

\* visit_If's mkapply; body and orelse are the groups of the two branches.
mkapply(frames, P, G, p1, body, p2, orelse, test, then_finalize, else_finalize) ==
    Do(Finalize(P, G, body, then_finalize), LAMBDA then_body :
    Do(construct_closure(frames, P, G, p1, <<>>, then_body.v), LAMBDA then_branch :
    Do(Finalize(then_branch.P, then_branch.G, orelse, else_finalize), LAMBDA else_body :
    Do(construct_closure(frames, then_branch.P, then_branch.G, p2, <<>>, else_body.v),
       LAMBDA else_branch :
    Do(visit(frames, else_branch.P, else_branch.G, test), LAMBDA cond :
       Res(cond.P, cond.G,
           Apply(Apply(builtins("switch"),
                       <<cond.v, then_branch.v, else_branch.v>>, FALSE),
                 <<>>, FALSE)))))))

\* The values a branch parser p binds to the names of ass.
Finals(frames, P, p, ass) ==
    [i \in 1..Len(ass) |-> getitem(Append(Frames(frames, P), p.bindings), ass[i])]

\* visit_If's checks as they would be if differing assigned sets were
\* reconciled by taking the first branch's names.
visit_If_checked_lenient(frames, P, G, p1, body, p2, orelse, test) ==
    IF p1.returns # p2.returns THEN Raise(P, G, MyiaSyntaxError(ReturnMismatch))
    ELSE IF p1.returns
    THEN mkapply(frames, [P EXCEPT !.returns = TRUE], G, p1, body, p2, orelse, test,
                 None, None)
    ELSE IF Len(p1.local_assignments) = 1
    THEN Do(mkapply(frames, P, G, p1, body, p2, orelse, test,
                    Finals(frames, P, p1, p1.local_assignments)[1],
                    Finals(frames, P, p2, p1.local_assignments)[1]),
            LAMBDA app : make_assign(app.P, app.G, p1.local_assignments[1], app.v))
    ELSE Do(mkapply(frames, P, G, p1, body, p2, orelse, test,
                    Tuple(Finals(frames, P, p1, p1.local_assignments)),
                    Tuple(Finals(frames, P, p2, p1.local_assignments))),
            LAMBDA app : multi_assign(app.P, app.G, p1.local_assignments, app.v))

\* visit_If's merge as it would be if each branch packed its tuple in the
\* order of its own assignments.
visit_If_checked_own_order(frames, P, G, p1, body, p2, orelse, test) ==
    IF p1.returns # p2.returns THEN Raise(P, G, MyiaSyntaxError(ReturnMismatch))
    ELSE IF SeqSet(p1.local_assignments) # SeqSet(p2.local_assignments)
    THEN Raise(P, G, MyiaSyntaxError(AssignMismatch))
    ELSE IF p1.returns
    THEN mkapply(frames, [P EXCEPT !.returns = TRUE], G, p1, body, p2, orelse, test,
                 None, None)
    ELSE IF Len(p1.local_assignments) = 1
    THEN Do(mkapply(frames, P, G, p1, body, p2, orelse, test,
                    Finals(frames, P, p1, p1.local_assignments)[1],
                    Finals(frames, P, p2, p1.local_assignments)[1]),
            LAMBDA app : make_assign(app.P, app.G, p1.local_assignments[1], app.v))
    ELSE Do(mkapply(frames, P, G, p1, body, p2, orelse, test,
                    Tuple(Finals(frames, P, p1, p1.local_assignments)),
                    Tuple(Finals(frames, P, p2, p2.local_assignments))),
            LAMBDA app : multi_assign(app.P, app.G, p1.local_assignments, app.v))

\* visit_If from the two checks on: p1, p2 are the branch parsers and body,
\* orelse the groups of the branches.
visit_If_checked(frames, P, G, p1, body, p2, orelse, test) ==
    IF p1.returns # p2.returns THEN Raise(P, G, MyiaSyntaxError(ReturnMismatch))
    ELSE IF SeqSet(p1.local_assignments) # SeqSet(p2.local_assignments)
    THEN Raise(P, G, MyiaSyntaxError(AssignMismatch))
    ELSE IF p1.returns
    THEN mkapply(frames, [P EXCEPT !.returns = TRUE], G, p1, body, p2, orelse, test,
                 None, None)
    ELSE IF Len(p1.local_assignments) = 1
    THEN Do(mkapply(frames, P, G, p1, body, p2, orelse, test,
                    Finals(frames, P, p1, p1.local_assignments)[1],
                    Finals(frames, P, p2, p1.local_assignments)[1]),
            LAMBDA app : make_assign(app.P, app.G, p1.local_assignments[1], app.v))
    ELSE Do(mkapply(frames, P, G, p1, body, p2, orelse, test,
                    Tuple(Finals(frames, P, p1, p1.local_assignments)),
                    Tuple(Finals(frames, P, p2, p1.local_assignments))),
            LAMBDA app : multi_assign(app.P, app.G, p1.local_assignments, app.v))

visit_If(frames, P, G, node) ==
    Bind(GenSym(G, P.dest.name, "then"), LAMBDA ref1 :
    Bind(prepare_closure(P, ref1.G, "", ref1.v), LAMBDA pc1 :
    DoSub(P, body_wrapper(Frames(frames, P), pc1.p, pc1.G, node.body), LAMBDA body :
    Bind(GenSym(body.G, P.dest.name, "else"), LAMBDA ref2 :
    Bind(prepare_closure(P, ref2.G, "", ref2.v), LAMBDA pc2 :
    DoSub(P, body_wrapper(Frames(frames, P), pc2.p, pc2.G, node.orelse), LAMBDA orelse :
          visit_If_checked(frames, P, orelse.G, body.P, body.v, orelse.P, orelse.v,
                           node.test)))))))

\* explore_vars' loop over exprs, run by testp.
explore_loop(frames, testp, G, exprs) ==
    IF exprs = <<>> THEN Res(testp, G, None)
    ELSE Do(IF Head(exprs).k = "list"
            THEN body_wrapper(frames, testp, G, Head(exprs).stmts)
            ELSE visit(frames, testp, G, Head(exprs)),
            LAMBDA r : explore_loop(frames, r.P, r.G, Tail(exprs)))

\* v = [in_vars, out_vars].  testp works on a ParseEnv of its own and, like
\* every parser it derives, draws its symbols from generators of its own
\* (Parser.__init__: gen or GenSym(); ParseEnv()'s gen): once explore_vars
\* returns they are unreachable, so the private table is dropped from G.envs
\* and the callers' generators stand where they stood.
\* explore_vars as it would be if testp were an ordinary sub-parser, writing
\* to the table of the parser it derives from.
explore_vars_committing(frames, P, G, exprs, return_error) ==
    Bind(GenSym([G EXCEPT !.envs = Append(@, <<>>)], "#lambda", ""), LAMBDA dest :
    Bind(explore_loop(Frames(frames, P),
                      [sub_parser(P, FALSE, dest.v) EXCEPT !.return_error = return_error],
                      dest.G, exprs),
         LAMBDA r :
            IF Failed(r)
            THEN Res(P, [G EXCEPT !.envs = SubSeq(r.G.envs, 1, Len(G.envs)),
                                  !.err = r.G.err], None)
            ELSE Res(P, [G EXCEPT !.envs = SubSeq(r.G.envs, 1, Len(G.envs))],
                     [in_vars |-> Update(Keys(r.P.free_variables), r.P.local_assignments),
                      out_vars |-> r.P.local_assignments])))

explore_vars(frames, P, G, exprs, return_error) ==
    Bind(GenSym([G EXCEPT !.envs = Append(@, <<>>)], "#lambda", ""), LAMBDA dest :
    Bind(explore_loop(Frames(frames, P),
                      [sub_parser(P, FALSE, dest.v) EXCEPT
                           !.global_env = Len(G.envs) + 1, !.dry = TRUE,
                           !.return_error = return_error],
                      dest.G, exprs),
         LAMBDA r :
            IF Failed(r)
            THEN Res(P, [G EXCEPT !.envs = SubSeq(r.G.envs, 1, Len(G.envs)),
                                  !.err = r.G.err], None)
            ELSE Res(P, [G EXCEPT !.envs = SubSeq(r.G.envs, 1, Len(G.envs))],
                     [in_vars |-> Update(Keys(r.P.free_variables), r.P.local_assignments),
                      out_vars |-> r.P.local_assignments])))

\* visit_While once the loop parser p has translated test and body (the
\* groups): self is the enclosing parser, in_syms p's formals.
visit_While_lower(frames, self, G, p, wsym, wbsym, in_vars, out_vars, in_syms, initial_values, test, body) ==
    Do(Finalize(self, G, body,
                Apply(wsym, Finals(frames, self, p, in_vars), FALSE)), LAMBDA if_body :
    Do(reg_lambda(self, G, wbsym, in_syms, if_body.v), LAMBDA if_fn :
    Do(reg_lambda(if_fn.P, if_fn.G, wsym, in_syms,
                  Apply(Apply(builtins("switch"),
                              <<test,
                                Closure(if_fn.v, in_syms),
                                Closure(builtins("identity"), <<Tuple(initial_values)>>)>>,
                              FALSE),
                        <<>>, FALSE)),
       LAMBDA reg :
          IF \E i \in 1..Len(in_vars) : ~Declared(Frames(frames, reg.P), in_vars[i])
          THEN Raise(reg.P, reg.G, NameError)
          ELSE multi_assign(reg.P, reg.G, out_vars,
                            Apply(wsym,
                                  [i \in 1..Len(in_vars) |->
                                      getitem(Frames(frames, reg.P), in_vars[i])],
                                  FALSE)))))

visit_While(frames, P, G, node) ==
    Bind(GenSym(G, P.dest.name, "while"), LAMBDA wsym :
    Bind(GenSym(wsym.G, P.dest.name, "while_body"), LAMBDA wbsym :
    Do(explore_vars(frames, P, wbsym.G, <<node.test, ast_list(node.body)>>, ""),
       LAMBDA while_vars :
    Do(visit_variables(frames, while_vars.P, while_vars.G, while_vars.v.in_vars, <<>>),
       LAMBDA self :
    Bind(new_variables(sub_parser(self.P, FALSE, wsym.v), self.G,
                       while_vars.v.in_vars, <<>>), LAMBDA in_syms :
    DoSub(self.P, visit(Frames(frames, self.P), in_syms.P, in_syms.G, node.test),
          LAMBDA test :
    DoSub(self.P, body_wrapper(Frames(frames, self.P), test.P, test.G, node.body),
          LAMBDA body :
          visit_While_lower(frames, self.P, body.G, body.P, wsym.v, wbsym.v,
                            while_vars.v.in_vars, while_vars.v.out_vars, in_syms.v,
                            Finals(frames, self.P, in_syms.P, while_vars.v.out_vars),
                            test.v, body.v))))))))


(***************************************************************************)
(* The state: the parsers alive in the caller (parsers[1] is the parser    *)
(* parse_source builds, parsers[i+1] a parser prepare_closure derived from *)
(* parsers[i], with the formals new_variable gave it), the shared ParseEnv *)
(* of get_global_parse_env, the symbol counter, the pending exception and  *)
(* the value the last call returned.  last names that call.                *)
(***************************************************************************)
VARIABLES parsers, global_env, gen, error, rval, last, ops,
          cache, dicts, pc, res, started, fired,
          chain, binds, looked

tvars == <<parsers, global_env, gen, error, rval, last, ops>>
dvars == <<cache, dicts, pc, res, started, fired>>
kvars == <<chain, binds, looked>>
vars == <<parsers, global_env, gen, error, rval, last, ops,
          cache, dicts, pc, res, started, fired,
          chain, binds, looked>>

Depth == Len(parsers)
Top == parsers[Depth].P
\* The bindings of the trackers above parsers[d]'s.
FramesAt(ps, d) == [i \in 1..(d - 1) |-> ps[i].P.bindings]
TopFrames == FramesAt(parsers, Depth)
Shared == [envs |-> <<global_env>>, next |-> gen, err |-> NoError]

\* The state after a call on parsers[d] that returned r.
Returned(d, r, call) ==
    /\ parsers' = [parsers EXCEPT ![d].P = r.P]
    /\ global_env' = r.G.envs[1]
    /\ gen' = r.G.next
    /\ error' = r.G.err
    /\ rval' = r.v
    /\ last' = call
    /\ ops' = ops + 1
    /\ UNCHANGED <<dvars, kvars>>

\* parse_source: Parser(Locator(url, line), get_global_parse_env(url),
\* top_level=True), whose dest is drawn from its gen.
TInit ==
    /\ parsers = <<[P |-> Parser(1, FALSE, FALSE, TRUE, "", Symbol("#lambda", 1, "local", "")),
                    sargs |-> <<>>]>>
    /\ global_env = <<>>
    /\ gen = 2
    /\ error = NoError
    /\ rval = None
    /\ last = [op |-> "init", arg |-> None]
    /\ ops = 0

\* The formals of the function the root parser translates, and of a closure.
Formals == <<"a", "b">>
ClosureFormals == <<"a">>

\* The root parser binds the formals of the function it translates first.
Ready == error = NoError /\ ops < MaxOps /\ last.op # "init"

Fresh(P) == \A n \in Names : P.bindings[n] = None

\* sargs = [p.new_variable(i) for i in args]  (make_closure), on a parser
\* that has visited nothing yet.
NewVariables(args) ==
    /\ error = NoError
    /\ Fresh(Top) /\ parsers[Depth].sargs = <<>> /\ last.op \in {"init", "prepare_closure"}
    /\ args = IF Depth = 1 THEN Formals ELSE ClosureFormals
    /\ LET r == new_variables(Top, Shared, args, <<>>)
       IN  /\ parsers' = [parsers EXCEPT ![Depth] = [P |-> r.P, sargs |-> r.v]]
           /\ gen' = r.G.next
           /\ rval' = None
           /\ last' = [op |-> "new_variable", arg |-> None]
           /\ ops' = ops
           /\ UNCHANGED <<global_env, error>>
           /\ UNCHANGED <<dvars, kvars>>

\* p.visit(node)
Visit(node) ==
    /\ Ready
    /\ Returned(Depth, visit(TopFrames, Top, Shared, node), [op |-> "visit", arg |-> node])

\* p.visit_body(stmts)
VisitBody(stmts) ==
    /\ Ready
    /\ Returned(Depth, visit_body(TopFrames, Top, Shared, stmts),
                [op |-> "visit_body", arg |-> ast_list(stmts)])

\* p.explore_vars(test, body)
ExploreVars(node, return_error) ==
    /\ Ready
    /\ LET r == explore_vars(TopFrames, Top, Shared, <<node.test, ast_list(node.body)>>,
                             return_error)
       IN  Returned(Depth, [r EXCEPT !.v = IF Failed(r) THEN None
                                           ELSE [k |-> "dict", in_vars |-> r.v.in_vars,
                                                 out_vars |-> r.v.out_vars]],
                    [op |-> "explore_vars", arg |-> node, return_error |-> return_error])

\* p = self.prepare_closure(variable)
PrepareClosure(variable) ==
    /\ Ready /\ Depth < MaxDepth
    /\ LET pc1 == prepare_closure(Top, Shared, variable, None)
       IN  /\ parsers' = Append(parsers, [P |-> pc1.p, sargs |-> <<>>])
           /\ gen' = pc1.G.next
           /\ rval' = None
           /\ last' = [op |-> "prepare_closure", arg |-> None]
           /\ ops' = ops + 1
           /\ UNCHANGED <<global_env, error>>
           /\ UNCHANGED <<dvars, kvars>>

\* self.construct_closure(p, sargs, fbody), fbody the node p returned last.
ConstructClosure ==
    /\ error = NoError /\ Depth > 1
    /\ last.op \in {"visit", "visit_body"} /\ rval.k \notin {"None", "_Assign", "Begin"}
    /\ LET d == Depth - 1
           r == construct_closure(FramesAt(parsers, d), parsers[d].P, Shared,
                                  Top, parsers[Depth].sargs, rval)
       IN  /\ parsers' = [SubSeq(parsers, 1, d) EXCEPT ![d].P = r.P]
           /\ global_env' = r.G.envs[1]
           /\ gen' = r.G.next
           /\ error' = r.G.err
           /\ rval' = r.v
           /\ last' = [op |-> "construct_closure", arg |-> None]
           /\ ops' = ops
           /\ UNCHANGED <<dvars, kvars>>

(***************************************************************************)
(* DynamicMap (myia/infer/utils.py).  Maps are the DynamicMap objects;     *)
(* cache[m] names the dict object m.cache refers to and dicts[d] is what    *)
(* that dict holds, so that two maps may hold one dict after a merge.  A    *)
(* caller is a task running m(args); between two awaits a task runs alone,  *)
(* so a call is two steps: up to the await of infer, and from infer's       *)
(* outcome to the return.  started and fired count, per map and key, the    *)
(* calls of infer and of on_result.                                         *)
(***************************************************************************)
Callers == 1..MaxCallers
Maps == {"a", "b"}
ArgTuples == {"x", "y"}
NoResult == [k |-> "None"]
\* What infer returns is the subclass's business: an opaque value of the map
\* asked.
infer(self, args) == [k |-> "inferred", by |-> self, args |-> args]
\* dict.update: the entries of other replace and extend those of d.
update(d, other) == [a \in ArgTuples |-> IF other[a] # NoResult THEN other[a] ELSE d[a]]

\* DynamicMap.__init__ of every map: an empty dict of its own.
DInit ==
    /\ cache = [m \in Maps |-> m]
    /\ dicts = [m \in Maps |-> [a \in ArgTuples |-> NoResult]]
    /\ pc = [c \in Callers |-> "idle"]
    /\ res = [c \in Callers |-> [self |-> "", args |-> "", value |-> NoResult]]
    /\ started = [m \in Maps |-> [a \in ArgTuples |-> 0]]
    /\ fired = [m \in Maps |-> [a \in ArgTuples |-> 0]]

\* __call__ up to its await: the cache test and, on a miss, the call of infer.
Call(c, self, args) ==
    /\ pc[c] = "idle"
    /\ IF dicts[cache[self]][args] # NoResult
       THEN /\ pc' = [pc EXCEPT ![c] = "returned"]
            /\ res' = [res EXCEPT ![c] = [self |-> self, args |-> args,
                                          value |-> dicts[cache[self]][args]]]
            /\ UNCHANGED started
       ELSE /\ pc' = [pc EXCEPT ![c] = "awaiting"]
            /\ res' = [res EXCEPT ![c] = [self |-> self, args |-> args, value |-> NoResult]]
            /\ started' = [started EXCEPT ![self][args] = @ + 1]
    /\ UNCHANGED <<cache, dicts, fired>>
    /\ UNCHANGED <<tvars, kvars>>

\* infer returned: the result is stored in the dict self.cache is now,
\* on_result fires, cache[args] is returned.
InferReturns(c) ==
    /\ pc[c] = "awaiting"
    /\ LET self == res[c].self
           args == res[c].args
           dicts2 == [dicts EXCEPT ![cache[self]][args] = infer(self, args)]
       IN  /\ dicts' = dicts2
           /\ fired' = [fired EXCEPT ![self][args] = @ + 1]
           /\ pc' = [pc EXCEPT ![c] = "returned"]
           /\ res' = [res EXCEPT ![c].value = dicts2[cache[self]][args]]
    /\ UNCHANGED <<cache, started>>
    /\ UNCHANGED <<tvars, kvars>>

\* infer raised: the exception leaves __call__, nothing is stored.
InferRaises(c) ==
    /\ pc[c] = "awaiting"
    /\ pc' = [pc EXCEPT ![c] = "raised"]
    /\ UNCHANGED <<cache, dicts, res, started, fired>>
    /\ UNCHANGED <<tvars, kvars>>

\* self.merge(other): self's dict takes the entries of other's, and other
\* holds self's dict from then on.  No infer runs and no on_result fires.
Merge(self, other) ==
    /\ dicts' = [dicts EXCEPT ![cache[self]] = update(@, dicts[cache[other]])]
    /\ cache' = [cache EXCEPT ![other] = cache[self]]
    /\ UNCHANGED <<pc, res, started, fired>>
    /\ UNCHANGED <<tvars, kvars>>

DNext ==
    \/ \E c \in Callers, self \in Maps, args \in ArgTuples : Call(c, self, args)
    \/ \E c \in Callers : InferReturns(c)
    \/ \E c \in Callers : InferRaises(c)
    \/ \E self, other \in Maps : Merge(self, other)

(***************************************************************************)
(* VariableTracker on its own: a chain of trackers, chain[1] the one        *)
(* without parent and chain[i+1] a VariableTracker(chain[i]).  binds is the *)
(* list of the __setitem__ calls made, looked the outcome of the last       *)
(* get_free.                                                               *)
(***************************************************************************)
TrackedNames == {"a", "b"}
\* The Symbol a caller binds: a new version at every call, as new_variable
\* draws it.
TrackedSym(name) == Symbol(name, Len(binds) + 1, "local", "")

\* VariableTracker.__init__ of the root tracker.
KInit ==
    /\ chain = <<NoBindings>>
    /\ binds = <<>>
    /\ looked = [op |-> "none"]

\* VariableTracker(parent), parent the innermost tracker of the chain.
NewTracker ==
    /\ Len(chain) < MaxFrames
    /\ chain' = Append(chain, NoBindings)
    /\ UNCHANGED <<binds, looked>>
    /\ UNCHANGED <<tvars, dvars>>

\* chain[i][name] = sym
SetBinding(i, name, sym) ==
    /\ Len(binds) < MaxBinds
    /\ chain' = [chain EXCEPT ![i] = setitem(@, name, sym)]
    /\ binds' = Append(binds, [frame |-> i, name |-> name, sym |-> sym])
    /\ UNCHANGED looked
    /\ UNCHANGED <<tvars, dvars>>

\* chain[i].get_free(name): the pair returned, or the NameError.
Lookup(i, name) ==
    /\ looked' = [op |-> "get_free", frame |-> i, name |-> name,
                  r |-> get_free(SubSeq(chain, 1, i), name)]
    /\ UNCHANGED <<chain, binds>>
    /\ UNCHANGED <<tvars, dvars>>

KNext ==
    \/ NewTracker
    \/ \E i \in 1..Len(chain), name \in TrackedNames :
          SetBinding(i, name, TrackedSym(name))
    \/ \E i \in 1..Len(chain), name \in TrackedNames : Lookup(i, name)

Init == TInit /\ DInit /\ KInit

SpecVT == Init /\ [][KNext]_vars

SpecDM == Init /\ [][DNext]_vars

(***************************************************************************)
(* The inputs of the translator: Python fragments over the names a, b, c   *)
(* (bound by formals or assignments) and u (bound nowhere).                *)
(***************************************************************************)
A == ast_Name("a")
B == ast_Name("b")
C == ast_Name("c")
U == ast_Name("u")
One == ast_Num(1)
Add(x, y) == ast_BinOp(x, "add", y)
Set(n, e) == ast_Assign(ast_Name(n), e)

SimpleNodes ==
    {Set("a", One),                                  \* a = 1
     Set("a", Add(A, One)),                          \* a = a + 1
     Set("b", Add(A, B)),                            \* b = a + b
     ast_AugAssign(A, "add", One),                   \* a += 1
     ast_Assign(ast_Subscript(A, ast_Index(One)), B),\* a[1] = b
     Set("b", ast_Subscript(A, ast_Index(One))),     \* b = a[1]
     ast_Assign(ast_Subscript(A, ast_Index(ast_Subscript(B, ast_Index(One)))), B),
                                                     \* a[b[1]] = b
     ast_Assign(One, One),                           \* 1 = 1
     ast_Return(A),                                  \* return a
     ast_Expr(Add(A, A)),                            \* a + a
     ast_Expr(Add(B, U))}                            \* b + u

LambdaNodes ==
    {ast_Lambda(<<>>, Add(A, B)),                    \* lambda: a + b
     ast_Lambda(<<>>, Add(B, Add(A, B))),            \* lambda: b + (a + b)
     ast_Lambda(<<"a">>, Add(A, B)),                 \* lambda a: a + b
     ast_Lambda(<<>>, ast_Lambda(<<>>, A)),          \* lambda: lambda: a
     ast_Lambda(<<>>, One)}                          \* lambda: 1

IfNodes ==
    {ast_If(A, <<Set("a", One), Set("b", A)>>, <<Set("b", One), Set("a", B)>>),
     ast_If(A, <<Set("a", One)>>, <<Set("b", One)>>),
     ast_If(A, <<ast_Return(A)>>, <<Set("a", One)>>),
     ast_If(A, <<ast_Return(A)>>, <<ast_Return(B)>>),
     ast_If(B, <<Set("a", Add(A, B))>>, <<Set("a", One), Set("a", Add(A, One))>>),
     ast_If(A, <<Set("a", One), ast_Return(A)>>, <<ast_Return(B)>>),
     ast_If(A, <<ast_Expr(A)>>, <<>>),
     ast_If(A, <<Set("a", One), Set("b", One)>>, <<Set("a", One)>>),
     ast_If(A, <<ast_If(B, <<Set("a", One)>>, <<Set("a", B)>>)>>, <<Set("a", One)>>),
     ast_If(A, <<Set("a", One), ast_Expr(A)>>, <<Set("a", B)>>),
     ast_If(A, <<Set("a", One), ast_Expr(B)>>, <<Set("a", B)>>),
     ast_If(B, <<Set("b", One), Set("a", Add(A, B))>>,
               <<Set("a", One), ast_Expr(A), Set("b", A), Set("a", B)>>)}

WhileNodes ==
    {ast_While(A, <<Set("a", Add(A, One))>>),
     ast_While(U, <<Set("a", Add(A, One))>>),
     ast_While(A, <<Set("a", Add(A, U))>>),
     ast_While(A, <<ast_Return(A)>>),
     ast_While(A, <<Set("b", ast_Lambda(<<>>, A))>>),
     ast_While(A, <<ast_If(B, <<Set("a", One)>>, <<Set("a", B)>>)>>),
     ast_While(A, <<ast_While(B, <<Set("b", Add(B, One))>>)>>),
     ast_While(A, <<ast_If(A, <<ast_Return(A)>>, <<ast_Return(B)>>)>>),
     ast_While(A, <<Set("a", Add(A, One)), ast_Expr(A)>>),
     ast_While(A, <<ast_AugAssign(U, "add", One)>>),
     ast_While(A, <<Set("c", One)>>),
     ast_While(A, <<Set("u", Add(U, One))>>),
     ast_While(U, <<Set("u", One)>>),
     ast_While(A, <<ast_While(B, <<Set("c", Add(U, One))>>)>>)}

\* The loops explored with a return_error, and the text given.
ReturnLoops == {ast_While(A, <<ast_Return(A)>>)}
ReturnError == "Return statements are not allowed here."

ReadNodes == {ast_Expr(Add(A, B)), Set("a", One)}

ShadowBody == <<Set("a", One), Set("a", Add(A, One)), ast_Return(A)>>

Bodies ==
    {ShadowBody,
     <<ast_If(B, <<Set("a", One)>>, <<Set("a", B)>>), ast_Return(A)>>,
     <<ast_Return(A), Set("a", One)>>,
     <<Set("a", One)>>,
     <<ast_Expr(ast_Lambda(<<>>, A)), Set("b", One)>>,
     <<ast_If(A, <<ast_Return(A)>>, <<ast_Return(B)>>), ast_Return(A)>>,
     <<ast_While(A, <<Set("a", Add(A, One))>>), ast_Return(A)>>}

ClosureNext ==
    \/ \E args \in {Formals, ClosureFormals} : NewVariables(args)
    \/ PrepareClosure("#lambda")
    \/ ConstructClosure

\* Assignments, reads and closures.
Next ==
    \/ \E args \in {Formals, ClosureFormals} : NewVariables(args)
    \/ \E variable \in {"#lambda", "c"} : PrepareClosure(variable)
    \/ ConstructClosure
    \/ \E node \in SimpleNodes \cup LambdaNodes : Visit(node)
    \/ \E stmts \in Bodies : VisitBody(stmts)

Spec == Init /\ [][Next]_vars

\* Conditionals.
NextIf ==
    \/ ClosureNext
    \/ \E node \in IfNodes \cup ReadNodes : Visit(node)

SpecIf == Init /\ [][NextIf]_vars

\* Loops.
NextWhile ==
    \/ ClosureNext
    \/ \E node \in WhileNodes \cup ReadNodes : Visit(node)
    \/ \E node \in WhileNodes : ExploreVars(node, "")
    \/ \E node \in ReturnLoops : ExploreVars(node, ReturnError)

SpecWhile == Init /\ [][NextWhile]_vars

\* Functions within functions: closures, branches and loops, nested.
FlatNodes ==
    {ast_Expr(ast_Lambda(<<>>, Add(A, B))),                  \* lambda: a + b
     ast_Expr(ast_Lambda(<<"a">>, Add(A, B))),               \* lambda a: a + b
     ast_Expr(ast_Lambda(<<>>, ast_Lambda(<<>>, A))),        \* lambda: lambda: a
     Set("b", ast_Lambda(<<>>, ast_Lambda(<<>>, Add(A, B)))),
     ast_If(B, <<Set("a", One)>>, <<Set("a", B)>>),
     ast_If(A, <<ast_If(B, <<Set("a", One)>>, <<Set("a", B)>>)>>, <<Set("a", One)>>),
     ast_If(A, <<Set("b", ast_Lambda(<<>>, A))>>, <<Set("b", U)>>),
     ast_While(A, <<Set("a", Add(A, One))>>),
     ast_While(A, <<Set("b", ast_Lambda(<<>>, A))>>),
     ast_While(A, <<ast_If(B, <<Set("a", One)>>, <<Set("a", B)>>)>>),
     ast_While(A, <<ast_While(B, <<Set("b", Add(B, One))>>)>>),
     ast_While(A, <<Set("a", Add(A, U))>>),
     ast_FunctionDef("c", <<"a">>, <<ast_Return(ast_Name("c"))>>)}  \* def c(a): return c

\* The statements are visited by the root parser or by the parser of a
\* closure under translation.
NextFlat ==
    \/ \E args \in {Formals, ClosureFormals} : NewVariables(args)
    \/ PrepareClosure("#lambda")
    \/ \E node \in FlatNodes : Visit(node)

SpecFlat == Init /\ [][NextFlat]_vars

\* Statement blocks.
BlockNodes ==
    {ast_Return(A),                                            \* return a
     ast_If(A, <<ast_Return(A)>>, <<ast_Return(B)>>),
     ast_If(B, <<Set("a", One)>>, <<Set("a", B)>>)}

BlockBodies ==
    {<<ast_Return(A), Set("a", One)>>,
     <<ast_If(A, <<ast_Return(A)>>, <<ast_Return(B)>>), ast_Return(A)>>,
     <<ast_If(B, <<Set("a", One)>>, <<Set("a", B)>>), ast_Return(A)>>,
     <<ast_Return(A), ast_If(B, <<ast_Return(A)>>, <<Set("a", One)>>)>>,
     <<Set("a", One), Set("b", A), ast_Expr(Add(A, B)), Set("a", B), ast_Return(A)>>,
     <<Set("a", One), ast_Expr(A), ast_Expr(B), Set("b", A)>>,
     <<ast_Expr(A), ast_Expr(B)>>,
     <<ast_Expr(A)>>,
     <<Set("a", One)>>,
     <<>>}

NextBlock ==
    \/ ClosureNext
    \/ \E node \in BlockNodes : Visit(node)
    \/ \E stmts \in BlockBodies : VisitBody(stmts)

SpecBlock == Init /\ [][NextBlock]_vars

(***************************************************************************)
(* Properties.                                                             *)
(***************************************************************************)
\* The symbols an IR node refers to (the symbols a Let or _Assign binds are
\* not references).
RECURSIVE Syms(_)
SymsOfSeq(nodes) == UNION {Syms(nodes[i]) : i \in 1..Len(nodes)}
Syms(e) ==
    CASE e.k = "Symbol" -> {e}
      [] e.k = "Tuple" -> SymsOfSeq(e.values)
      [] e.k = "Apply" -> Syms(e.fn) \cup SymsOfSeq(e.args)
      [] e.k = "Closure" -> Syms(e.fn) \cup SymsOfSeq(e.args)
      [] e.k = "Let" -> UNION {Syms(e.bindings[i][2]) : i \in 1..Len(e.bindings)}
                            \cup Syms(e.body)
      [] e.k = "Begin" -> SymsOfSeq(e.stmts)
      [] e.k = "_Assign" -> Syms(e.value)
      [] OTHER -> {}

\* The names a Python expression reads from its surroundings.
RECURSIVE NamesRead(_)
NamesRead(e) ==
    CASE e.k = "Name" -> {e.id}
      [] e.k = "BinOp" -> NamesRead(e.left) \cup NamesRead(e.right)
      [] e.k = "Index" -> NamesRead(e.value)
      [] e.k = "Subscript" -> NamesRead(e.value) \cup NamesRead(e.slice)
      [] e.k = "Lambda" -> NamesRead(e.body) \ SeqSet(e.args)
      [] OTHER -> {}

\* The name an assignment statement binds.
Target(node) ==
    IF node.k = "AugAssign" THEN node.target.id
    ELSE IF node.targ.k = "Subscript" THEN node.targ.value.id
    ELSE node.targ.id

\* Whether an assignment statement reads the name it binds.
ReadsTarget(node) ==
    \/ node.k = "AugAssign"
    \/ node.k = "Assign" /\ node.targ.k = "Subscript"
    \/ node.k = "Assign" /\ Target(node) \in NamesRead(node.value)

\* The parser a call was made on, before and after the call.
Callee == parsers[Depth].P
CalleeAfter == parsers'[Depth].P
OnTop(opnames) == last'.op \in opnames /\ Len(parsers') = Depth

\* An assignment statement that returned: the name is bound to a symbol
\* issued during the call, different from the one it was bound to, which the
\* translated right-hand side does not mention; a right-hand side that reads
\* the name mentions the symbol bound before.
AssignStep ==
    (OnTop({"visit"}) /\ last'.arg.k \in {"Assign", "AugAssign"} /\ error' = NoError) =>
        LET n == Target(last'.arg)
            old == Callee.bindings[n]
            new == CalleeAfter.bindings[n]
        IN  /\ rval'.k = "_Assign" /\ rval'.varname = new
            /\ new.k = "Symbol" /\ new.version >= gen /\ new.version < gen'
            /\ new # old
            /\ new \notin Syms(rval'.value)
            /\ (old # None /\ ReadsTarget(last'.arg)) => old \in Syms(rval'.value)
            /\ n \in SeqSet(CalleeAfter.local_assignments)

\* Any statement or body (merges of conditionals and unpacks of loops
\* included): whatever name is bound differently afterwards is bound to a
\* symbol issued during the call, a name newly assigned is rebound, and no
\* enclosing parser's bindings change.
RebindStep ==
    (OnTop({"visit", "visit_body"}) /\ error' = NoError) =>
        /\ \A n \in VarNames :
              CalleeAfter.bindings[n] # Callee.bindings[n] =>
                  /\ CalleeAfter.bindings[n].k = "Symbol"
                  /\ CalleeAfter.bindings[n].version >= gen
                  /\ CalleeAfter.bindings[n].version < gen'
        /\ \A n \in SeqSet(CalleeAfter.local_assignments) \ SeqSet(Callee.local_assignments) :
              CalleeAfter.bindings[n] # Callee.bindings[n]
        /\ \A d \in 1..(Depth - 1) : parsers'[d].P.bindings = parsers[d].P.bindings

\* x = 1; x = x + 1; return x
ShadowStep ==
    (OnTop({"visit_body"}) /\ last'.arg = ast_list(ShadowBody) /\ error' = NoError) =>
        /\ rval'.k = "Let" /\ Len(rval'.bindings) = 2
        /\ rval'.bindings[1][1] # rval'.bindings[2][1]
        /\ rval'.bindings[1][2] = Value(1)
        /\ rval'.bindings[2][2] =
               Apply(get_operator("add"), <<rval'.bindings[1][1], Value(1)>>, FALSE)
        /\ rval'.body = rval'.bindings[2][1]

\* C1: every name assignment (plain, subscript, augmented, merge or unpack)
\* binds the name to an identifier distinct from every identifier issued
\* earlier and leaves earlier bindings' identifiers alone; the right-hand
\* side is translated before the rebinding, so that x = 1; x = x + 1 yields
\* a Let of two different identifiers whose second value references the
\* first.
C1_FreshIdentifierPerAssignment ==
    [][AssignStep /\ RebindStep /\ ShadowStep]_vars

\* The shadowing body translated, by a parser in which a was bound before.
C1_Witness ==
    /\ last.op = "visit_body" /\ last.arg = ast_list(ShadowBody) /\ error = NoError
    /\ rval.k = "Let" /\ Len(rval.bindings) = 2
    /\ Top.bindings["a"] = rval.bindings[2][1]
    /\ "a" \in SeqSet(Top.local_assignments)

\* The Lambda the table holds for ref (None when it holds none).
Registered(table, ref) ==
    IF \E i \in 1..Len(table) : table[i].ref = ref
    THEN table[CHOOSE i \in 1..Len(table) : table[i].ref = ref]
    ELSE None

\* A construct_closure(p, sargs, fbody) that returned, p the child parser
\* popped by the call and self the parser below it.
ConstructStep ==
    (last'.op = "construct_closure" /\ error' = NoError) =>
        LET p == Top
            d == Depth - 1
            fv == p.free_variables
            lbda == Registered(global_env', p.dest)
            after == Append(FramesAt(parsers', d), parsers'[d].P.bindings)
        IN  /\ lbda = Lambda(p.dest, Values(fv) \o parsers[Depth].sargs, rval)
            /\ IF Len(fv) > 0
               THEN /\ rval'.k = "Closure" /\ rval'.fn = p.dest
                    /\ Len(rval'.args) = Len(fv)
                    /\ \A i \in 1..Len(fv) :
                          /\ Declared(after, fv[i].name)
                          /\ rval'.args[i] = getitem(after, fv[i].name)
                          /\ rval'.args[i] # fv[i].sym
               ELSE rval' = p.dest

\* A lambda expression that returned (make_closure): the function registered
\* for it has one parameter per capture, then one per formal, the formals
\* being the symbols of the lambda's own argument names in order.
LambdaStep ==
    (OnTop({"visit"}) /\ last'.arg.k = "Lambda" /\ error' = NoError) =>
        LET formals == last'.arg.args
            ref == IF rval'.k = "Closure" THEN rval'.fn ELSE rval'
            ncap == IF rval'.k = "Closure" THEN Len(rval'.args) ELSE 0
            lbda == Registered(global_env', ref)
        IN  /\ rval'.k \in {"Closure", "Symbol"}
            /\ rval'.k = "Closure" => ncap > 0
            /\ lbda # None
            /\ Len(lbda.args) = ncap + Len(formals)
            /\ \A i \in 1..Len(formals) : lbda.args[ncap + i].name = formals[i]
            /\ \A i \in 1..ncap :
                  /\ lbda.args[i].name = rval'.args[i].name
                  /\ lbda.args[i] # rval'.args[i]
                  /\ lbda.args[i].name \in NamesRead(last'.arg)
                  /\ rval'.args[i] = getitem(Append(TopFrames, CalleeAfter.bindings),
                                              lbda.args[i].name)

\* C2: construct_closure registers a function whose parameters are the
\* child's capture aliases, in the order of its free-variable map, followed
\* by the formals, and returns a Closure whose i-th value is the parent's
\* resolution of the name of the i-th alias; a child without free variables
\* yields the bare destination symbol and no Closure.
C2_ClosureParamsAreCapturesThenFormals ==
    [][ConstructStep /\ LambdaStep]_vars

\* A closure built from a child with a formal and a capture.
C2_Witness ==
    /\ last.op = "construct_closure" /\ error = NoError
    /\ rval.k = "Closure" /\ Len(rval.args) >= 1
    /\ Registered(global_env, rval.fn) # None
    /\ Len(Registered(global_env, rval.fn).args) > Len(rval.args)

\* A call on a parser in pulling mode: the entries its free-variable map
\* had stay as they were; an entry added is for a name that had no binding
\* in the parser's own frame and resolves above it, and its alias is a symbol
\* issued during the call, different from the outer symbol; afterwards a
\* recorded name that was not assigned since is bound to its alias in the
\* innermost frame, and no name is recorded twice.
PullStep ==
    (OnTop({"visit", "visit_body"}) /\ Callee.pull_free_variables) =>
        LET fv == Callee.free_variables
            fv2 == CalleeAfter.free_variables
        IN  /\ Len(fv2) >= Len(fv)
            /\ \A i \in 1..Len(fv) : fv2[i] = fv[i]
            /\ \A i, j \in 1..Len(fv2) : fv2[i].name = fv2[j].name => i = j
            /\ \A i \in (Len(fv) + 1)..Len(fv2) :
                  /\ Callee.bindings[fv2[i].name] = None
                  /\ Declared(TopFrames, fv2[i].name)
                  /\ fv2[i].sym # getitem(TopFrames, fv2[i].name)
                  /\ fv2[i].sym.version >= gen /\ fv2[i].sym.version < gen'
            /\ \A i \in 1..Len(fv2) :
                  fv2[i].name \notin SeqSet(CalleeAfter.local_assignments) =>
                      CalleeAfter.bindings[fv2[i].name] = fv2[i].sym

\* a + a read by a pulling parser: both reads give one symbol, the alias if
\* a is free, and at most one entry is added.
ReadTwiceStep ==
    (OnTop({"visit"}) /\ Callee.pull_free_variables /\ last'.arg = ast_Expr(Add(A, A))) =>
        /\ rval'.k = "Apply" /\ rval'.args[1] = rval'.args[2]
        /\ Len(CalleeAfter.free_variables) <= Len(Callee.free_variables) + 1
        /\ Callee.bindings["a"] = None =>
               /\ HasKey(CalleeAfter.free_variables, "a")
               /\ rval'.args[1] = GetItem(CalleeAfter.free_variables, "a")
        /\ Callee.bindings["a"] # None =>
               /\ CalleeAfter.free_variables = Callee.free_variables
               /\ rval'.args[1] = Callee.bindings["a"]

\* C3: in pulling mode the first read of a name resolving above the
\* innermost frame allocates one fresh alias, records name -> alias and binds
\* the alias in the innermost frame; later reads return that alias and add
\* no entry, so the map holds at most one alias per name; a name bound
\* locally before its first read is never recorded as free.
C3_OneAliasPerFreeName ==
    [][PullStep /\ ReadTwiceStep]_vars

\* A pulling parser that read a + a with a free, after an earlier read of b.
C3_Witness ==
    /\ Depth > 1 /\ Top.pull_free_variables /\ error = NoError
    /\ last.op = "visit" /\ last.arg = ast_Expr(Add(A, A))
    /\ Keys(Top.free_variables) = <<"b", "a">>
    /\ rval.args = <<GetItem(Top.free_variables, "a"), GetItem(Top.free_variables, "a")>>

\* What a statement list does, read off the Python text: whether a return
\* is reached at its level, and the names it assigns in order of their first
\* assignment (a conditional that does not return assigns what its first
\* branch assigns, a loop assigns what its body assigns).
RECURSIVE StmtsReturn(_)
RECURSIVE AssignOrderFrom(_, _)
StmtReturns(stmt) ==
    \/ stmt.k = "Return"
    \/ stmt.k = "If" /\ StmtsReturn(stmt.body)
StmtsReturn(stmts) == \E i \in 1..Len(stmts) : StmtReturns(stmts[i])
StmtAssignSeq(stmt) ==
    CASE stmt.k \in {"Assign", "AugAssign"} -> <<Target(stmt)>>
      [] stmt.k = "If" ->
            IF StmtsReturn(stmt.body) THEN <<>> ELSE AssignOrderFrom(stmt.body, <<>>)
      [] stmt.k = "While" -> AssignOrderFrom(stmt.body, <<>>)
      [] OTHER -> <<>>
AssignOrderFrom(stmts, keys) ==
    IF stmts = <<>> THEN keys
    ELSE AssignOrderFrom(Tail(stmts), Update(keys, StmtAssignSeq(Head(stmts))))
AssignOrder(stmts) == AssignOrderFrom(stmts, <<>>)
StmtsAssign(stmts) == SeqSet(AssignOrder(stmts))

\* An if statement visited: it is accepted only if the branches agree on
\* returning and on the set of assigned names, a difference is answered by
\* the matching MyiaSyntaxError, and a rejection leaves the parser as it
\* was, with no name bound from either branch.
IfStep ==
    (OnTop({"visit"}) /\ last'.arg.k = "If") =>
        LET node == last'.arg
            flags == StmtsReturn(node.body) = StmtsReturn(node.orelse)
            sets == StmtsAssign(node.body) = StmtsAssign(node.orelse)
        IN  /\ error' = NoError => flags /\ sets
            /\ ~flags => error' = MyiaSyntaxError(ReturnMismatch)
            /\ (flags /\ ~sets) => error' = MyiaSyntaxError(AssignMismatch)
            /\ error' \in {MyiaSyntaxError(ReturnMismatch), MyiaSyntaxError(AssignMismatch)} =>
                   /\ ~(flags /\ sets)
                   /\ CalleeAfter = Callee /\ rval' = None
                   /\ global_env' = global_env

\* C4: a conditional is rejected with a MyiaSyntaxError whenever its branches
\* differ in has-returned status or in the set of locally assigned names
\* (also when both return); the sets are never reconciled, and a
\* conditional is accepted only when both the flags and the sets are equal.
C4_BranchMismatchRejected ==
    [][IfStep]_vars

\* Both branches return, the first one assigns a on the way: rejected.
C4_Witness ==
    /\ last.op = "visit" /\ error = MyiaSyntaxError(AssignMismatch)
    /\ last.arg = ast_If(A, <<Set("a", One), ast_Return(A)>>, <<ast_Return(B)>>)

\* The value a translated body evaluates to, and the symbols its Lets bind,
\* in order.
RECURSIVE Result(_)
RECURSIVE BoundIn(_)
Result(e) ==
    CASE e.k = "Let" -> Result(e.body)
      [] e.k = "Begin" -> Result(e.stmts[Len(e.stmts)])
      [] OTHER -> e
BoundIn(e) ==
    CASE e.k = "Let" -> [i \in 1..Len(e.bindings) |-> e.bindings[i][1]] \o BoundIn(e.body)
      [] e.k = "Begin" -> BoundIn(e.stmts[Len(e.stmts)])
      [] OTHER -> <<>>
\* The symbol a translated body binds last to a name.
FinalBinding(e, name) ==
    LET bs == BoundIn(e)
        at == {i \in 1..Len(bs) : bs[i].name = name}
    IN  IF at = {} THEN None ELSE bs[CHOOSE i \in at : \A j \in at : j <= i]

\* The body of the function a branch of a switch refers to.
BranchBody(table, branch) ==
    Registered(table, IF branch.k = "Closure" THEN branch.fn ELSE branch).body

\* Whether a statement list ends in an assignment, so that the value of the
\* block is the finalizer given to it.
EndsInAssign(stmts) ==
    /\ stmts # <<>>
    /\ \/ stmts[Len(stmts)].k \in {"Assign", "AugAssign"}
       \/ stmts[Len(stmts)].k = "If" /\ ~StmtsReturn(stmts[Len(stmts)].body)

\* The tuple a branch packs: one value per name, the i-th being the symbol
\* the branch binds last to the i-th name.
PacksInOrder(body, names) ==
    /\ Result(body).k = "Tuple"
    /\ Len(Result(body).values) = Len(names)
    /\ \A i \in 1..Len(names) :
          /\ Result(body).values[i] = FinalBinding(body, names[i])
          /\ Result(body).values[i].name = names[i]

\* C5: when the branches of a conditional assign the same two or more
\* names, the tuple packed by the then-branch, the tuple packed by the
\* else-branch and the unpack in the enclosing parser use one name order, the
\* assignment order of the first-visited branch: index i of both tuples
\* holds the branch's final binding of the name rebound from index i, also
\* when the branches assign the names in different orders.
C5_MergeOrderIsFirstBranchOrder ==
    (/\ last.op = "visit" /\ last.arg.k = "If" /\ error = NoError
     /\ ~StmtsReturn(last.arg.body)
     /\ Cardinality(StmtsAssign(last.arg.body)) >= 2
     /\ EndsInAssign(last.arg.body) /\ EndsInAssign(last.arg.orelse)) =>
        LET names == AssignOrder(last.arg.body)
            tmp == rval.stmts[1].varname
            switch == rval.stmts[1].value.fn
        IN  /\ rval.k = "Begin" /\ Len(rval.stmts) = Len(names) + 1
            /\ switch.fn = builtins("switch")
            /\ PacksInOrder(BranchBody(global_env, switch.args[2]), names)
            /\ PacksInOrder(BranchBody(global_env, switch.args[3]), names)
            /\ \A i \in 1..Len(names) :
                  /\ rval.stmts[i + 1].varname.name = names[i]
                  /\ rval.stmts[i + 1].varname = Top.bindings[names[i]]
                  /\ rval.stmts[i + 1].value =
                         Apply(builtins("index"), <<tmp, Value(i - 1)>>, TRUE)

\* a, b assigned in that order by the first branch and in the order b, a by
\* the second, merged.
C5_Witness ==
    /\ last.op = "visit" /\ error = NoError
    /\ last.arg = ast_If(A, <<Set("a", One), Set("b", A)>>, <<Set("b", One), Set("a", B)>>)
    /\ rval.k = "Begin" /\ Len(rval.stmts) = 3
    /\ BoundIn(BranchBody(global_env, rval.stmts[1].value.fn.args[3]))[1].name = "b"
    /\ Result(BranchBody(global_env, rval.stmts[1].value.fn.args[3])).values[1].name = "a"

\* The statements of a loop body that make nested parsers: closures,
\* conditionals, loops.
Nests(stmts) ==
    \E i \in 1..Len(stmts) :
        \/ stmts[i].k \in {"If", "While"}
        \/ stmts[i].k = "Assign" /\ stmts[i].value.k = "Lambda"

\* explore_vars called: the table, every live parser (bindings,
\* free_variables, local_assignments, returns) and the callers' symbol
\* generators are as before, whether it returned or raised.
ExploreStep ==
    last'.op = "explore_vars" =>
        /\ global_env' = global_env
        /\ parsers' = parsers
        /\ gen' = gen

\* explore_vars called again on the input of the call before it: the same
\* in_vars and out_vars.
ExploreAgainStep ==
    (/\ last.op = "explore_vars" /\ last'.op = "explore_vars"
     /\ last'.arg = last.arg /\ last'.return_error = last.return_error) =>
        /\ rval' = rval
        /\ error' = error

\* What explore_vars returns, read off the loop: the names assigned by the
\* body are the out_vars, and end the in_vars.
ExploreResult ==
    (last.op = "explore_vars" /\ error = NoError) =>
        /\ rval.out_vars = AssignOrder(last.arg.body)
        /\ Len(rval.in_vars) >= Len(rval.out_vars)
        /\ \A i, j \in 1..Len(rval.in_vars) : rval.in_vars[i] = rval.in_vars[j] => i = j
        /\ SeqSet(rval.out_vars) \subseteq SeqSet(rval.in_vars)

\* C6: explore_vars has no observable side effect: the shared table and
\* the enclosing parser's bindings, free-variable map, local assignments and
\* returns flag are unchanged, also when the loop body holds closures,
\* conditionals or loops, and a second run on the same input returns the
\* same in_vars and out_vars.
C6_ExploreVarsHasNoEffect ==
    [][ExploreStep /\ ExploreAgainStep /\ ExploreResult']_vars

\* explore_vars run twice in a row on a loop whose body makes a nested
\* parser, with functions already in the table.
C6_Witness ==
    /\ last.op = "explore_vars" /\ error = NoError /\ ops >= 3 /\ global_env # <<>>
    /\ Nests(last.arg.body)
    /\ Len(rval.in_vars) >= 2

\* No merge has changed a cache: every map holds the dict it was made with.
Unmerged == \A m \in Maps : cache[m] = m

\* C7: over every interleaving of concurrent calls of a DynamicMap with one
\* argument tuple, infer is started at most once for the key, on_result
\* fires at most once for it, and all callers that returned hold the same
\* result.
C7_InferRunsOncePerKey ==
    Unmerged =>
        /\ \A m \in Maps, a \in ArgTuples : started[m][a] <= 1 /\ fired[m][a] <= 1
        /\ \A c, d \in Callers :
              (/\ pc[c] = "returned" /\ pc[d] = "returned"
               /\ res[c].self = res[d].self /\ res[c].args = res[d].args) =>
                  res[c].value = res[d].value

\* C8: translation is all-or-nothing: when a call raises, the shared table
\* holds no Lambda registered during it (its contents are those before the
\* call).
C8_FailedTranslationRegistersNothing ==
    [][(error = NoError /\ error' # NoError) => global_env' = global_env]_vars

\* C9: a return inside the body of a while loop is rejected: the discovery
\* pass and the real pass raise a MyiaSyntaxError.
C9_ReturnInLoopRejected ==
    (/\ last.op \in {"visit", "explore_vars"} /\ last.arg.k = "While"
     /\ StmtsReturn(last.arg.body)) =>
        error \in MyiaSyntaxErrors

\* The names a statement list reads by a plain name read, and those it
\* assigns by an augmented assignment.
RECURSIVE StmtsRead(_)
StmtReads(stmt) ==
    CASE stmt.k \in {"Assign", "AugAssign", "Expr", "Return"} -> NamesRead(stmt.value)
      [] stmt.k \in {"If", "While"} ->
            NamesRead(stmt.test) \cup StmtsRead(stmt.body)
                \cup (IF stmt.k = "If" THEN StmtsRead(stmt.orelse) ELSE {})
      [] OTHER -> {}
StmtsRead(stmts) == UNION {StmtReads(stmts[i]) : i \in 1..Len(stmts)}
AugTargets(stmts) ==
    {stmts[i].target.id : i \in {j \in 1..Len(stmts) : stmts[j].k = "AugAssign"}}

\* The names bound nowhere in the scope chain of the parser called last.
Unbound == {n \in Names : ~Declared(Append(TopFrames, Top.bindings), n)}
\* A loop that reads such a name by a plain read, or augments it.
ReadsUnbound(node) ==
    (NamesRead(node.test) \cup StmtsRead(node.body)) \cap Unbound # {}
AugmentsUnbound(node) == AugTargets(node.body) \cap Unbound # {}
GlobalRef(name) == Symbol(name, 0, "global", "")

RECURSIVE PlainTargets(_)
RECURSIVE NestedTargets(_)
PlainTarget(stmt) ==
    CASE stmt.k = "Assign" /\ stmt.targ.k = "Name" -> {stmt.targ.id}
      [] stmt.k = "Assign" /\ stmt.targ.k = "Subscript" /\ stmt.targ.value.k = "Name" ->
            {stmt.targ.value.id}
      [] stmt.k = "If" -> PlainTargets(stmt.body) \cup PlainTargets(stmt.orelse)
      [] OTHER -> {}
PlainTargets(stmts) == UNION {PlainTarget(stmts[i]) : i \in 1..Len(stmts)}
NestedTarget(stmt) ==
    CASE stmt.k = "While" -> PlainTargets(stmt.body) \cup NestedTargets(stmt.body)
      [] stmt.k = "If" -> NestedTargets(stmt.body) \cup NestedTargets(stmt.orelse)
      [] OTHER -> {}
NestedTargets(stmts) == UNION {NestedTarget(stmts[i]) : i \in 1..Len(stmts)}

\* The unbound names a loop assigns: in its own body, and in a loop nested
\* in it.
AssignsUnbound(node) == PlainTargets(node.body) \cap Unbound
NestedAssignsUnbound(node) == NestedTargets(node.body) \cap Unbound

\* The loop fails in the discovery pass: it augments an unbound name, or a
\* loop nested in it assigns one (the call of the nested loop is built
\* during the discovery pass of the outer one).
DryFails(node) == AugmentsUnbound(node) \/ NestedAssignsUnbound(node) # {}

\* A plain read of an unbound name in a loop does not raise: the discovery
\* pass returns, the unbound names among in_vars and out_vars being those the
\* body assigns; the real pass fails exactly when the body assigns an unbound
\* name, and otherwise the functions registered for the loop refer to the name
\* read as a global by name.
PlainReadResolved ==
    (/\ last.op \in {"visit", "explore_vars"} /\ last.arg.k = "While"
     /\ ReadsUnbound(last.arg) /\ ~DryFails(last.arg)) =>
        /\ last.op = "explore_vars" =>
               /\ error = NoError
               /\ SeqSet(rval.in_vars) \cap Unbound = AssignsUnbound(last.arg)
               /\ SeqSet(rval.out_vars) \cap Unbound = AssignsUnbound(last.arg)
        /\ last.op = "visit" =>
               /\ (error = NameError) = (AssignsUnbound(last.arg) # {})
               /\ AssignsUnbound(last.arg) = {} =>
                      /\ error = NoError
                      /\ \E i \in 1..Len(global_env) :
                             \E n \in Unbound : GlobalRef(n) \in Syms(global_env[i].body)

\* A plain assignment to an unbound name in the body of a loop makes the name
\* a formal of the loop functions, which the reads of the real pass resolve
\* to; NameError is raised in the real pass, when the call of the loop is
\* built, both loop functions being registered by then.
PlainAssignFailsReal ==
    (/\ OnTop({"visit"}) /\ last'.arg.k = "While"
     /\ AssignsUnbound(last'.arg) # {} /\ ~DryFails(last'.arg)) =>
        /\ error' = NameError
        /\ Len(global_env') >= Len(global_env) + 2
        /\ \A i \in (Len(global_env) + 1)..Len(global_env') :
               /\ \A n \in AssignsUnbound(last'.arg) :
                      /\ GlobalRef(n) \notin Syms(global_env'[i].body)
                      /\ i <= Len(global_env) + 2 =>
                             \E k \in 1..Len(global_env'[i].args) :
                                 global_env'[i].args[k].name = n

\* An augmented assignment to an unbound name in a loop raises NameError; so
\* does an assignment to one in a nested loop.  The visit of the loop raises
\* it in the dry pass, having drawn but the two labels of the loop and
\* registered nothing.
AugmentedFails ==
    (/\ last.op \in {"visit", "explore_vars"} /\ last.arg.k = "While"
     /\ DryFails(last.arg)) =>
        error = NameError
AugmentedFailsDry ==
    (OnTop({"visit"}) /\ last'.arg.k = "While" /\ DryFails(last'.arg)) =>
        /\ error' = NameError
        /\ gen' = gen + 2
        /\ global_env' = global_env /\ parsers' = parsers

BindsAt(i, name) ==
    {j \in 1..Len(binds) : binds[j].frame = i /\ binds[j].name = name}
\* The trackers at or above tracker i on which the name was ever set.
BindingFrames(i, name) == {f \in 1..i : BindsAt(f, name) # {}}
\* What get_free on tracker i has to return, going by the calls made.
Expected(i, name) ==
    IF BindingFrames(i, name) = {}
    THEN [found |-> FALSE, free |-> FALSE, sym |-> None]
    ELSE LET f == CHOOSE g \in BindingFrames(i, name) :
                      \A h \in BindingFrames(i, name) : h <= g
             j == CHOOSE k \in BindsAt(f, name) : \A l \in BindsAt(f, name) : l <= k
         IN  [found |-> TRUE, free |-> f # i, sym |-> binds[j].sym]

\* A __setitem__ on a tracker leaves get_free from every tracker above it
\* as it was.
AncestorsKeep ==
    \A i \in 1..Len(chain), name \in TrackedNames :
        (Len(binds') = Len(binds) + 1 /\ binds'[Len(binds')].frame > i) =>
            get_free(SubSeq(chain', 1, i), name) = get_free(SubSeq(chain, 1, i), name)

\* C11: after any sequence of binds on the frames of a scope chain, lookup
\* of a name from a frame returns the identifier bound last to it in the
\* nearest frame at or above that binds it, is_free being true iff that
\* frame is not the starting one, and fails iff no frame of the chain binds
\* the name; a bind in a frame never changes lookup from an ancestor.
C11_LookupIsNearestLatestBinding ==
    [][/\ (looked'.op = "get_free" /\ UNCHANGED <<chain, binds>>) =>
            LET e == Expected(looked'.frame, looked'.name) IN
            /\ looked'.r.found = e.found
            /\ e.found => (looked'.r.free = e.free /\ looked'.r.sym = e.sym)
       /\ AncestorsKeep]_vars

\* A name bound twice in the root tracker and once below, looked up from the
\* innermost of three trackers, which does not bind it.
C11_Witness ==
    /\ Len(chain) = 3 /\ looked.op = "get_free" /\ looked.frame = 3
    /\ looked.r.found /\ looked.r.free
    /\ BindsAt(3, looked.name) = {}
    /\ BindsAt(2, looked.name) # {}
    /\ Cardinality(BindsAt(1, looked.name)) = 2
    /\ looked.r.sym # chain[1][looked.name]

\* The statement of a block before which the has-returned flag of the
\* translator is set: the first one on a translator that has returned, the
\* second one when the first one is translated and sets it; 0 when neither.
FlagSetBefore(stmts) ==
    IF stmts = <<>> THEN 0
    ELSE IF Top.returns THEN 1
    ELSE LET h == visit(TopFrames, Top, Shared, Head(stmts))
         IN  IF Len(stmts) >= 2 /\ ~Failed(h) /\ h.P.returns THEN 2 ELSE 0
\* The translation of that statement on its own.
FurtherStmt(stmts) ==
    IF FlagSetBefore(stmts) = 1 THEN visit(TopFrames, Top, Shared, stmts[1])
    ELSE LET h == visit(TopFrames, Top, Shared, Head(stmts))
         IN  visit(TopFrames, h.P, h.G, stmts[2])
BlockStep == OnTop({"visit_body"}) /\ FlagSetBefore(last'.arg.stmts) > 0

\* A return, or a conditional whose branches both return, sets the flag of
\* the translator that visits it; a conditional whose branches do not return
\* leaves it as it was.
FlagStep ==
    (OnTop({"visit"}) /\ error' = NoError) =>
        LET node == last'.arg
            after == parsers'[Depth].P.returns
        IN  /\ node.k = "Return" => after
            /\ (node.k = "If" /\ StmtsReturn(node.body)) => after
            /\ (node.k = "If" /\ ~StmtsReturn(node.body)) => after = Top.returns

\* C12 as stated: once the has-returned flag is set, translating a further
\* statement of the block fails with the dead-code error.
C12_FurtherStatementIsDeadCode ==
    [][FlagStep /\ (BlockStep => error' = MyiaSyntaxError(DeadCode))]_vars

\* C12: once the has-returned flag is set, by a return or by a conditional
\* whose branches both return, translating a further statement of the block
\* fails: with the error of that statement when its own translation fails,
\* with the dead-code error when it does not; a conditional whose branches do
\* not return leaves the flag of the enclosing translator unchanged.
C12_FurtherStatementFails ==
    [][/\ FlagStep
       /\ BlockStep =>
            LET f == FurtherStmt(last'.arg.stmts)
            IN  error' = IF Failed(f) THEN f.G.err ELSE MyiaSyntaxError(DeadCode)]_vars

\* A block was refused for its dead code after a conditional whose branches
\* both return, by a translator that had visited something else before
\* without its flag being set.
C12_Witness ==
    /\ last.op = "visit_body" /\ error = MyiaSyntaxError(DeadCode)
    /\ Len(last.arg.stmts) = 2 /\ last.arg.stmts[1].k = "If"
    /\ StmtsReturn(last.arg.stmts[1].body)
    /\ Top.returns /\ ops >= 2

\* A while statement that was lowered by the parser on top: the function of
\* the loop, the function of its body, its exit branch, and the call of the
\* loop the enclosing parser returns.
Lowered == OnTop({"visit"}) /\ last'.arg.k = "While" /\ error' = NoError
LoopCall == rval'.stmts[1].value
LoopFn == Registered(global_env', LoopCall.fn)
ExitBranch == LoopFn.body.fn.args[3]
ContinueFn == Registered(global_env', LoopFn.body.fn.args[2].fn)
OutVars == AssignOrder(last'.arg.body)

\* The exit branch returns the tuple of the loop function's own formals for
\* the out_vars, in their order.
ExitReturnsFormals ==
    /\ ExitBranch.k = "Closure" /\ ExitBranch.fn = builtins("identity")
    /\ Len(ExitBranch.args) = 1 /\ ExitBranch.args[1].k = "Tuple"
    /\ LET values == ExitBranch.args[1].values
       IN  /\ Len(values) = Len(OutVars)
           /\ \A i \in 1..Len(values) :
                 /\ values[i].name = OutVars[i]
                 /\ values[i] \in SeqSet(LoopFn.args)
                 /\ values[i].version >= gen

\* The enclosing parser binds index i of the result of the call to a new
\* symbol for the i-th out_var.
UnpacksInOrder ==
    /\ rval'.k = "Begin" /\ Len(rval'.stmts) = 1 + Len(OutVars)
    /\ \A i \in 1..Len(OutVars) :
          LET sym == CalleeAfter.bindings[OutVars[i]]
          IN  /\ rval'.stmts[i + 1] =
                    _Assign(sym, Apply(builtins("index"),
                                       <<rval'.stmts[1].varname, Value(i - 1)>>, TRUE))
              /\ sym.name = OutVars[i] /\ sym.version >= gen
              /\ sym # Callee.bindings[OutVars[i]]

\* What a name stands for in the enclosing parser before the loop: the
\* symbol it is bound to there, else the alias under which a closure parser
\* pulls it in, else the symbol an enclosing scope binds it to.
PreLoop(name) ==
    IF Callee.bindings[name] # None THEN Callee.bindings[name]
    ELSE IF Callee.pull_free_variables THEN GetItem(CalleeAfter.free_variables, name)
    ELSE getitem(TopFrames, name)

\* The call of the loop passes, formal by formal, what the name of the
\* formal stands for before the loop.
PassesPreLoopValues ==
    /\ LoopCall.k = "Apply" /\ Len(LoopCall.args) = Len(LoopFn.args)
    /\ \A j \in 1..Len(LoopFn.args) :
          LoopCall.args[j] = PreLoop(LoopFn.args[j].name)

\* The function of the body has the formals of the loop and its value is a
\* call of the loop, one argument per formal.
IterationCallsLoop ==
    /\ ContinueFn.args = LoopFn.args
    /\ LET call == Result(ContinueFn.body)
       IN  /\ call.k = "Apply" /\ call.fn = LoopCall.fn
           /\ Len(call.args) = Len(LoopFn.args)

\* The parts of C13 about the exit branch and the unpacking alone.
ExitAndUnpack ==
    [][Lowered => (ExitReturnsFormals /\ UnpacksInOrder /\ PassesPreLoopValues)]_vars

\* C13: in the lowered loop the exit branch returns the tuple of the loop
\* function's own formals for the out_vars, in out_vars order, the enclosing
\* translator unpacks index i of the result of the loop call into a new
\* identifier for out_vars[i], so that with zero iterations every out_var
\* keeps its value of before the loop, and after one iteration it holds the
\* value the recursive call passed.
C13_ExitReturnsFormalsUnchanged ==
    [][Lowered => (/\ ExitReturnsFormals /\ UnpacksInOrder
                   /\ PassesPreLoopValues /\ IterationCallsLoop)]_vars

\* A conditional without return whose branches assign the same names,
\* visited by the parser on top.
MergingIf ==
    /\ last.op = "visit" /\ last.arg.k = "If"
    /\ ~StmtsReturn(last.arg.body) /\ ~StmtsReturn(last.arg.orelse)
    /\ StmtsAssign(last.arg.body) = StmtsAssign(last.arg.orelse)
\* The switch the conditional was translated to.
SwitchOf(node) ==
    IF node.k = "_Assign" THEN node.value.fn ELSE node.stmts[1].value.fn
\* The body of a branch closure evaluates to the finalizer of the branch.
EndsInFinalizer(body, names) ==
    IF Len(names) = 1
    THEN Result(body) # None /\ Result(body) = FinalBinding(body, names[1])
    ELSE PacksInOrder(body, names)

\* C14: for a conditional in which neither branch returns, the body of each
\* branch closure evaluates to the finalizer of the branch (its final binding
\* of the one assigned name, or the tuple of its final bindings), whatever
\* the statements of the branch: also when the last one is not an assignment
\* and when the else branch is empty.
C14_BranchBodyEndsInFinalizer ==
    MergingIf =>
        /\ error = NoError
        /\ \A i \in {2, 3} :
              EndsInFinalizer(BranchBody(global_env, SwitchOf(rval).args[i]),
                              AssignOrder(last.arg.body))

\* What a name stands for once the body of the loop has run: the symbol the
\* body binds last to it, else the formal of the loop for it.
PostBody(body, formal) ==
    IF FinalBinding(body, formal.name) # None THEN FinalBinding(body, formal.name)
    ELSE formal

\* C15: for every loop body the continue function has the formals of the
\* in_vars as parameters and its body ends in a call of the loop identifier
\* on the bindings every in_var has after the body, in the order of the
\* formals: also when the last statement of the body is not an assignment.
C15_ContinueEndsInRecursiveCall ==
    [][Lowered =>
          /\ ContinueFn.args = LoopFn.args
          /\ Result(ContinueFn.body) =
                 Apply(LoopCall.fn,
                       [j \in 1..Len(LoopFn.args) |->
                           PostBody(ContinueFn.body, LoopFn.args[j])],
                       FALSE)]_vars

\* The symbols bound inside a translated body, by its Lets.
RECURSIVE LetBound(_)
LetBoundOfSeq(nodes) == UNION {LetBound(nodes[i]) : i \in 1..Len(nodes)}
LetBound(e) ==
    CASE e.k = "Let" -> {e.bindings[i][1] : i \in 1..Len(e.bindings)}
                            \cup UNION {LetBound(e.bindings[i][2]) : i \in 1..Len(e.bindings)}
                            \cup LetBound(e.body)
      [] e.k = "Begin" -> LetBoundOfSeq(e.stmts)
      [] e.k = "Tuple" -> LetBoundOfSeq(e.values)
      [] e.k = "Apply" -> LetBound(e.fn) \cup LetBoundOfSeq(e.args)
      [] e.k = "Closure" -> LetBoundOfSeq(e.args)
      [] OTHER -> {}

\* The Closure nodes of a translated body.
RECURSIVE ClosuresIn(_)
ClosuresInSeq(nodes) == UNION {ClosuresIn(nodes[i]) : i \in 1..Len(nodes)}
ClosuresIn(e) ==
    CASE e.k = "Closure" -> {e} \cup ClosuresInSeq(e.args)
      [] e.k = "Let" -> UNION {ClosuresIn(e.bindings[i][2]) : i \in 1..Len(e.bindings)}
                            \cup ClosuresIn(e.body)
      [] e.k = "Begin" -> ClosuresInSeq(e.stmts)
      [] e.k = "Tuple" -> ClosuresInSeq(e.values)
      [] e.k = "Apply" -> ClosuresIn(e.fn) \cup ClosuresInSeq(e.args)
      [] e.k = "_Assign" -> ClosuresIn(e.value)
      [] OTHER -> {}

\* The references of the global namespace: builtins, names bound nowhere,
\* and the identifiers the functions of the table are registered under.
GlobalRefs(table) ==
    {table[i].ref : i \in 1..Len(table)}
GlobalReference(table, sym) ==
    sym.namespace \in {"builtin", "global"} \/ sym \in GlobalRefs(table)

\* A registered function refers to its own parameters, to what its own Lets
\* bind, and to the global namespace.
Flat(table, fn) ==
    \A sym \in Syms(fn.body) :
        \/ sym \in SeqSet(fn.args)
        \/ sym \in LetBound(fn.body)
        \/ GlobalReference(table, sym)

\* A function that makes a closure of a registered function hands it, by
\* name, its own view of what that function captures.
CapturesByName(table, e) ==
    \A c \in ClosuresIn(e) :
        c.fn \in GlobalRefs(table) =>
            /\ Len(c.args) <= Len(Registered(table, c.fn).args)
            /\ \A i \in 1..Len(c.args) :
                  c.args[i].name = Registered(table, c.fn).args[i].name

\* C16: the IR is lexically flat: every function registered in the table
\* (nested functions, lambdas, branch closures, loop and continue functions,
\* at any depth) refers only to its own parameters, to identifiers bound by
\* a Let of its body and to the global namespace, and a name read two or
\* more closure levels below its binding is captured by every closure in
\* between.
C16_RegisteredFunctionsAreFlat ==
    \A i \in 1..Len(global_env) :
        /\ Flat(global_env, global_env[i])
        /\ CapturesByName(global_env, global_env[i].body)

\* lambda: lambda: a + b translated in a scope that binds a and b: the inner
\* function takes aliases of both, the function between takes aliases of its
\* own and hands them on, and the scope hands its bindings to that one.
C16_Witness ==
    /\ error = NoError /\ last.op = "visit" /\ rval.k = "_Assign"
    /\ rval.value.k = "Closure" /\ Len(rval.value.args) = 2
    /\ \E i, j \in 1..Len(global_env) :
          LET inner == global_env[i]
              mid == global_env[j]
          IN  /\ mid.ref = rval.value.fn
              /\ mid.body.k = "Closure" /\ mid.body.fn = inner.ref
              /\ mid.body.args = mid.args /\ Len(mid.args) = 2
              /\ Len(inner.args) = 2 /\ SeqSet(inner.args) \cap SeqSet(mid.args) = {}
              /\ Syms(inner.body) = SeqSet(inner.args) \cup {builtins("add")}
              /\ SeqSet(rval.value.args) \cap SeqSet(mid.args) = {}

\* The functions the translation of a node registers: one per lambda, two
\* per conditional (its branches) and two per loop (the loop and its body).
RECURSIVE FnCount(_)
FnCountSeq(nodes) ==
    LET counts == [i \in 1..Len(nodes) |-> FnCount(nodes[i])]
        sum[i \in 0..Len(nodes)] == IF i = 0 THEN 0 ELSE sum[i - 1] + counts[i]
    IN  sum[Len(nodes)]
FnCount(node) ==
    CASE node.k = "Lambda" -> 1 + FnCount(node.body)
      [] node.k = "BinOp" -> FnCount(node.left) + FnCount(node.right)
      [] node.k = "Subscript" -> FnCount(node.value) + FnCount(node.slice)
      [] node.k \in {"Assign", "AugAssign", "Expr", "Return", "Index"} -> FnCount(node.value)
      [] node.k = "If" -> 2 + FnCount(node.test) + FnCountSeq(node.body)
                            + FnCountSeq(node.orelse)
      [] node.k = "While" -> 2 + FnCount(node.test) + FnCountSeq(node.body)
      [] OTHER -> 0

\* Every step leaves the entries of the table as they are and where they
\* are, new ones coming after them under identifiers drawn during the step
\* (by construct_closure: under the destination drawn for the closure parser
\* when it was prepared).
AppendOnly ==
    /\ Len(global_env') >= Len(global_env)
    /\ SubSeq(global_env', 1, Len(global_env)) = global_env
    /\ \A i \in (Len(global_env) + 1)..Len(global_env') :
          /\ global_env'[i].ref \notin GlobalRefs(global_env)
          /\ IF last'.op = "construct_closure"
             THEN global_env'[i].ref = Top.dest
             ELSE global_env'[i].ref.version >= gen /\ global_env'[i].ref.version < gen'
\* A statement that was translated has registered each of its functions,
\* none under the identifier of another; the dry run of a loop none.
RegistersEach ==
    /\ (OnTop({"visit"}) /\ error' = NoError) =>
           Len(global_env') = Len(global_env) + FnCount(last'.arg)
    /\ last'.op = "explore_vars" => global_env' = global_env
    /\ (last'.op = "construct_closure" /\ error' = NoError) =>
           Len(global_env') = Len(global_env) + 1

\* C17: the shared table is append-only over any sequence of translation
\* steps: only translators that do not discard insert into it, no entry is
\* removed and none is overwritten, no identifier being registered twice, as
\* every destination identifier is drawn anew.
C17_TableIsAppendOnly ==
    [][AppendOnly /\ RegistersEach]_vars

\* A loop holding a conditional was translated after another loop, its dry
\* run having registered nothing: four functions follow the two that were
\* there.
C17_Witness ==
    /\ last.op = "visit" /\ error = NoError /\ last.arg.k = "While"
    /\ FnCount(last.arg) = 4
    /\ Len(global_env) = 6
    /\ \A i, j \in 1..Len(global_env) : global_env[i].ref = global_env[j].ref => i = j

\* C18: a named function definition is translated through closure
\* conversion with its own name bound, in the scope of its body, to the
\* destination identifier before the body is translated, so that the body's
\* reference to the name is the identifier the function is registered under
\* and no capture; the translation of a legal definition completes and
\* yields the assignment of the name to the closure or reference.
C18_FunctionDefBindsOwnName ==
    (last.op = "visit" /\ last.arg.k = "FunctionDef") =>
        /\ error = NoError
        /\ rval.k = "_Assign" /\ rval.varname = Top.bindings[last.arg.name]
        /\ rval.value.k \in {"Closure", "Symbol"}
        /\ LET ref == IF rval.value.k = "Closure" THEN rval.value.fn ELSE rval.value
               fn == Registered(global_env, ref)
           IN  /\ fn # None
               /\ \A i \in 1..Len(fn.args) :
                     fn.args[i].name = last.arg.name => last.arg.name \in SeqSet(last.arg.args)
               /\ (last.arg.body = <<ast_Return(ast_Name(last.arg.name))>>
                      /\ last.arg.name \notin SeqSet(last.arg.args)) => fn.body = ref

\* The length of the maximal run of nodes of one kind (assignments, or
\* others) a list of translated statements begins with.
IsAssign(node) == node.k = "_Assign"
RunLength(results) ==
    LET same == {n \in 1..Len(results) :
                    \A i \in 1..n : IsAssign(results[i]) = IsAssign(results[1])}
    IN  CHOOSE n \in same : \A m \in same : m <= n
\* The node a block of translated statements stands for, going by its runs;
\* MissingValue when its last run is one of assignments and no value
\* follows it.
MissingValue == [k |-> "MissingValue"]
RECURSIVE Grouped(_, _)
Grouped(results, result) ==
    LET n == RunLength(results)
        run == SubSeq(results, 1, n)
        rest == SubSeq(results, n + 1, Len(results))
        tail == IF rest = <<>> THEN result ELSE Grouped(rest, result)
    IN  IF IsAssign(results[1])
        THEN IF tail \in {None, MissingValue} THEN MissingValue
             ELSE Let([i \in 1..n |-> <<run[i].varname, run[i].value>>], tail)
        ELSE IF rest = <<>> THEN (IF n = 1 THEN run[1] ELSE Begin(run))
        ELSE IF tail = MissingValue THEN MissingValue
        ELSE Begin(Append(run, tail))

\* The translations of the statements of a block, one after the other, a
\* Begin among them standing for its statements.
Translated(stmts) == body_wrapper_loop(TopFrames, Top, Shared, stmts, <<>>)
GroupStep ==
    /\ OnTop({"visit_body"}) /\ last'.arg.stmts # <<>>
    /\ ~Failed(Translated(last'.arg.stmts))

\* C19: a statement block is grouped by contiguity alone: every maximal run
\* of assignments becomes one Let of the run, in source order, over the
\* translation of what follows, every maximal run of other nodes the
\* leading statements of a Begin (the node itself when the run is the last
\* and has one node); the block fails with the missing-value error exactly
\* when its last run is one of assignments and no value is supplied.
C19_BlockGroupedByContiguity ==
    [][GroupStep =>
          LET results == Translated(last'.arg.stmts).v
              node == Grouped(results, None)
          IN  /\ (error' = MyiaSyntaxError(MissingReturn)) = IsAssign(results[Len(results)])
              /\ node = MissingValue => error' = MyiaSyntaxError(MissingReturn)
              /\ node # MissingValue => (error' = NoError /\ rval' = node)]_vars

\* a = 1; b = a; a + b; a = b; return a was translated to a Let of two
\* bindings over a Begin of the expression and a Let of one binding.
C19_Witness ==
    /\ last.op = "visit_body" /\ error = NoError /\ Len(last.arg.stmts) = 5
    /\ rval.k = "Let" /\ Len(rval.bindings) = 2
    /\ rval.bindings[1][1].name = "a" /\ rval.bindings[2][1].name = "b"
    /\ rval.body.k = "Begin" /\ Len(rval.body.stmts) = 2
    /\ rval.body.stmts[1].k = "Apply"
    /\ rval.body.stmts[2].k = "Let" /\ Len(rval.body.stmts[2].bindings) = 1
    /\ rval.body.stmts[2].body = rval.body.stmts[2].bindings[1][1]

====
